---- MODULE Spec2Model ----
(***************************************************************************)
(* Model of the LLM batching layer and the credentialing orchestrator of   *)
(* camelCase02/credcred (backend/utils/llm_async, backend/services).       *)
(*                                                                         *)
(* The module holds several specifications over one set of variables:      *)
(*   SpecBatch  one generate_batch_async call on a backend adapter         *)
(*   SpecBatchFail the same call when a generate_async call may raise      *)
(*   SpecParse  the two response parsers applied to one response text      *)
(*   SpecRun    one credential_provider run, from retrieval to return      *)
(*   SpecRerun  the same run on a service that credentialed providers before *)
(*   SpecScore  aggregation of a run over arbitrary soft results           *)
(*   SpecLLM    construction of the unified provider and of an envelope    *)
(*   SpecAdapter one generate / generate_async call on a backend adapter   *)
(*   SpecServe  the concurrent runs of one /batch-credential request       *)
(*   SpecServeFail the same request when generate_async calls may raise    *)
(*   SpecEndpoint one POST /credential/{provider_id} request               *)
(* Each specification keeps the variables of the others at their idle      *)
(* values.                                                                 *)
(***************************************************************************)
EXTENDS Integers, Sequences, FiniteSets, TLC

VARIABLES
    \* ---- one generate_batch_async call (llm.py, bedrock_llm.py) ----
    adapter,        \* "gpt" (base-class scheduler) or "bedrock" (override)
    prompts,        \* the caller's ordered sequence of prompts
    bpc,            \* position in generate_batch_async
    offset,         \* loop variable i of the wave loop (0-based)
    tasks,          \* the awaitables handed to asyncio.gather, in launch order
    prompt_uids,    \* Bedrock: the uid generated for each prompt, in order
    results,        \* the list the call returns
    launched,       \* prompt positions generate_async was called for, in call order
    \* ---- one response parsed by the two parsers (credentialing_service.py) ----
    response_content,   \* the text of the LLM response
    parse_reg,          \* index of the regulation the response is about
    ppc,                \* "new", "hard" (hard parser ran), "soft" (both ran)
    hard_passed,        \* what _parse_hard_regulation_response returned
    soft_score,         \* what _parse_soft_regulation_response returned
    \* ---- one credential_provider run (credentialing_service.py:40-330) ----
    rpc,                        \* the phase the run is in
    provider_id,                \* the argument of credential_provider
    provider_data,              \* provider.get_all_data()
    hard_regulations,           \* self.regulations["regulations"]["hard_regulations"]
    soft_regulations,           \* self.regulations["regulations"]["soft_regulations"]
    mapped_data,
    verification_details,
    llm_responses,              \* outcome of the latest generate_batch_async call
    hard_regulation_results,
    soft_regulation_results,
    run_result,                 \* result built at line 214
    exception,                  \* the exception caught at line 292, if any
    returned,                   \* what credential_provider returned
    credentialing_results,      \* self.credentialing_results
    audit_events,               \* event types written by audit_logger
    mapping_outcome,            \* what the mapping call of line 907 gave
    llm_envelopes,              \* the LLMResponse of every LLM call of the run
    report_outcome,             \* None, "generated" or "raised" (lines 259-288)
    \* ---- one unified provider and one response envelope (unified_llm.py, llm.py) ----
    model_name,         \* the model identifier, as the caller wrote it
    input_tokens,       \* token counts reported by the backend
    output_tokens,
    upc,                \* "new", "ready" (provider built), "config_error"
    provider,           \* self.provider: None, "bedrock" or "gpt"
    provider_calls,     \* calls made on the provider object
    envelope,           \* the LLMResponse built last, if any
    \* ---- one call on a backend adapter (bedrock_llm.py, gpt_llm.py) ----
    adapter_class,      \* "bedrock" or "gpt"
    adapter_model,      \* self.model_name of the adapter
    vendor_response,    \* what self.llm.invoke(prompt) answered
    adapter_method,     \* "generate" or "generate_async", once called
    apc,                \* "new", "returned" or "raised"
    adapter_result,     \* the LLMResponse the call returned, if any
    \* ---- one /batch-credential request (main.py:447-485, config/concurrency.py) ----
    provider_ids,       \* the request body
    batch_limit,        \* ConcurrencyConfig.MAX_CONCURRENT_BATCH_REQUESTS
    chunk_start,        \* loop variable i of the chunk loop
    spc,                \* "chunk" (next chunk to launch), "gather", "done"
    runs,               \* the credential_provider coroutines of the chunk
    clock,              \* results constructed so far (their timestamp order)
    created,            \* every CredentialingResult stored so far
    llm_semaphore,      \* llm_semaphore._value: free permits
    batch_results,      \* the dict results of the endpoint (main.py:460)
    http_response,      \* what the endpoint answered, once it has
    \* ---- one POST /credential/{provider_id} request (main.py:215-239) ----
    epc,                \* "check", "run" (credential_provider awaited), "answered"
    path_provider_id,   \* the provider_id of the path
    endpoint_response   \* what the endpoint answered, once it has

batchVars == <<adapter, prompts, bpc, offset, tasks, prompt_uids, results, launched>>
parseVars == <<response_content, parse_reg, ppc, hard_passed, soft_score>>

runVars == <<rpc, provider_id, provider_data, hard_regulations, soft_regulations,
             mapped_data, verification_details, llm_responses,
             hard_regulation_results, soft_regulation_results, run_result,
             exception, returned, credentialing_results, audit_events,
             mapping_outcome, llm_envelopes, report_outcome>>

llmVars == <<model_name, input_tokens, output_tokens, upc, provider,
             provider_calls, envelope>>

adapterVars == <<adapter_class, adapter_model, vendor_response, adapter_method,
                 apc, adapter_result>>

serveVars == <<provider_ids, batch_limit, chunk_start, spc, runs, clock, created,
               llm_semaphore, batch_results, http_response>>

\* The variables of a run other than the service's result store.
runLocalVars == <<rpc, provider_id, provider_data, hard_regulations, soft_regulations,
                  mapped_data, verification_details, llm_responses,
                  hard_regulation_results, soft_regulation_results, run_result,
                  exception, returned, audit_events, mapping_outcome, llm_envelopes, report_outcome>>

endpointVars == <<epc, path_provider_id, endpoint_response>>

vars == <<batchVars, parseVars, runVars, llmVars, serveVars, adapterVars, endpointVars>>

None == "None"

\* No CredentialingResult (yet).
NoResult == [unset |-> TRUE]

Min(a, b) == IF a <= b THEN a ELSE b
Max(a, b) == IF a >= b THEN a ELSE b

BatchIdle ==
    /\ adapter = None /\ prompts = <<>> /\ bpc = "idle" /\ offset = 0
    /\ tasks = <<>> /\ prompt_uids = <<>> /\ results = <<>> /\ launched = <<>>

ParseIdle ==
    /\ response_content = <<>> /\ parse_reg = 0 /\ ppc = "idle"
    /\ hard_passed = None /\ soft_score = 0

RunIdle ==
    /\ rpc = "idle" /\ provider_id = None /\ provider_data = None
    /\ hard_regulations = <<>> /\ soft_regulations = <<>>
    /\ mapped_data = None /\ verification_details = None /\ llm_responses = None
    /\ hard_regulation_results = <<>> /\ soft_regulation_results = <<>>
    /\ run_result = NoResult /\ exception = None /\ returned = NoResult
    /\ credentialing_results = <<>> /\ audit_events = {}
    /\ mapping_outcome = None /\ llm_envelopes = <<>> /\ report_outcome = None

\* No LLMResponse (yet).
NoEnvelope == [unset |-> TRUE]

LlmIdle ==
    /\ model_name = <<>> /\ input_tokens = 0 /\ output_tokens = 0
    /\ upc = "idle" /\ provider = None /\ provider_calls = 0
    /\ envelope = NoEnvelope

\* No HTTP response (yet).
NoResponse == [pending |-> TRUE]

EndpointIdle ==
    /\ epc = "idle" /\ path_provider_id = None /\ endpoint_response = NoResponse

AdapterIdle ==
    /\ adapter_class = None /\ adapter_model = <<>> /\ vendor_response = None
    /\ adapter_method = None /\ apc = "idle" /\ adapter_result = NoEnvelope

ServeIdle ==
    /\ provider_ids = <<>> /\ batch_limit = 0 /\ chunk_start = 0 /\ spc = "idle"
    /\ runs = <<>> /\ clock = 0 /\ created = {} /\ llm_semaphore = 0
    /\ batch_results = <<>> /\ http_response = NoResponse

(***************************************************************************)
(* Batch scheduler                                                         *)
(***************************************************************************)

\* llm.py:170,177,178: the literal 50 of the base-class scheduler.
WAVE_SIZE == 50

\* Batch sizes explored: 0..MaxSmall, and around each multiple of WAVE_SIZE
\* up to MaxWaves waves, from one below to MaxExtra above.
MaxSmall == 2
MaxWaves == 1
MaxExtra == 1
\* A running task may finish whenever at most AnyOrderBelow tasks are running;
\* with more running, the lowest or the highest launched finishes next (the
\* in-order and the reverse-order completions and their mixtures).
AnyOrderBelow == 2

BatchSizes ==
    (0..MaxSmall) \cup
    { k * WAVE_SIZE + d : k \in 1..MaxWaves, d \in (0 - 1)..MaxExtra }

Adapters == {"gpt", "bedrock"}

\* The prompts of a batch of n: two texts alternating, so that a prompt's
\* text does not identify its position.
PromptSeq(n) == [k \in 1..n |-> k % 2]

\* LLMResponse as far as the scheduler is concerned: the content answers the
\* prompt text; call is the position of the prompt the call was made for.
LLMResponse(prompt, pos) == [content |-> prompt, call |-> pos]

\* A coroutine generate_async(prompt) handed to gather.
NewTask(prompt, pos, uid) ==
    [prompt |-> prompt, pos |-> pos, uid |-> uid, state |-> "running", result |-> None]

\* prompts[i : i + 50] as positions (1-based) of the slice.
WaveSliceToEnd(n, i) == (i + 1)..n
WaveSlice(n, i) == (i + 1)..Min(i + WAVE_SIZE, n)

\* tasks = [self.generate_async(prompt) for prompt in batch]
LaunchWave(i) ==
    LET slice == WaveSlice(Len(prompts), i)
        lo == i + 1
    IN  [j \in 1..Cardinality(slice) |-> NewTask(prompts[lo + j - 1], lo + j - 1, None)]

\* The positions the tasks of a wave were created for, in creation order.
PositionsOf(ts) == [j \in 1..Len(ts) |-> ts[j].pos]

Running == { j \in 1..Len(tasks) : tasks[j].state = "running" }

\* asyncio.gather(*tasks): the results of the tasks in the order of the tasks.
GatherCompletionSkew(ts) == [j \in 1..Len(ts) |-> ts[Len(ts) + 1 - j].result]
Gather(ts) == [j \in 1..Len(ts) |-> ts[j].result]

\* The number of generate_async calls of the batch in flight.
InFlight == Cardinality(Running)

BatchInit ==
    /\ adapter \in Adapters
    /\ \E n \in BatchSizes : prompts = PromptSeq(n)
    /\ bpc = "call"
    /\ offset = 0
    /\ tasks = <<>>
    /\ prompt_uids = <<>>
    /\ results = <<>>
    /\ launched = <<>>
    /\ ParseIdle /\ RunIdle /\ LlmIdle /\ ServeIdle /\ AdapterIdle /\ EndpointIdle

\* llm.py:170-173: at most 50 prompts, one gather over all of them.
BaseStartSmall ==
    /\ adapter = "gpt" /\ bpc = "call"
    /\ Len(prompts) <= WAVE_SIZE
    /\ tasks' = LaunchWave(0)
    /\ launched' = launched \o PositionsOf(tasks')
    /\ bpc' = "gather_all"
    /\ UNCHANGED <<adapter, prompts, offset, prompt_uids, results>>

\* llm.py:173: return await asyncio.gather(*tasks)
BaseReturnSmall ==
    /\ bpc = "gather_all" /\ Running = {}
    /\ results' = Gather(tasks)
    /\ tasks' = <<>>
    /\ bpc' = "done"
    /\ UNCHANGED <<adapter, prompts, offset, prompt_uids, launched>>

\* llm.py:176-179: more than 50 prompts, first iteration of the wave loop.
BaseStartWaves ==
    /\ adapter = "gpt" /\ bpc = "call"
    /\ Len(prompts) > WAVE_SIZE
    /\ offset' = 0
    /\ tasks' = LaunchWave(0)
    /\ launched' = launched \o PositionsOf(tasks')
    /\ bpc' = "gather_wave"
    /\ UNCHANGED <<adapter, prompts, prompt_uids, results>>

\* llm.py:180-181 and the next iteration 177-179, or the return at 183.
BaseCollectWave ==
    /\ bpc = "gather_wave" /\ Running = {}
    /\ results' = results \o Gather(tasks)
    /\ IF offset + WAVE_SIZE < Len(prompts)
       THEN /\ offset' = offset + WAVE_SIZE
            /\ tasks' = LaunchWave(offset + WAVE_SIZE)
            /\ bpc' = "gather_wave"
       ELSE /\ offset' = offset
            /\ tasks' = <<>>
            /\ bpc' = "done"
    /\ launched' = launched \o PositionsOf(tasks')
    /\ UNCHANGED <<adapter, prompts, prompt_uids>>

\* uuid.uuid4() per prompt: tokens that are pairwise distinct, in no
\* relation to the order of the prompts.
UidsFor(n, salt) == [k \in 1..n |-> ((k + salt) % n) + 1]

\* bedrock_llm.py:104-120: a uid and a task per prompt, all handed to gather.
BedrockStart ==
    /\ adapter = "bedrock" /\ bpc = "call"
    /\ \E salt \in 0..1 :
        /\ prompt_uids' = UidsFor(Len(prompts), salt)
        /\ tasks' = [k \in 1..Len(prompts) |->
                        NewTask(prompts[k], k, UidsFor(Len(prompts), salt)[k])]
    /\ launched' = launched \o PositionsOf(tasks')
    /\ bpc' = "gather_uid"
    /\ UNCHANGED <<adapter, prompts, offset, results>>

\* bedrock_llm.py:124: response_map = {uid: response for uid, response in results}
ResponseMap(pairs) ==
    [u \in { pairs[j][1] : j \in 1..Len(pairs) } |->
        LET last == CHOOSE j \in 1..Len(pairs) :
                        /\ pairs[j][1] = u
                        /\ \A k \in 1..Len(pairs) : pairs[k][1] = u => k <= j
        IN  pairs[last][2]]

\* bedrock_llm.py:120-134: gather, build the map, re-index through the uids.
BedrockReturn ==
    /\ bpc = "gather_uid" /\ Running = {}
    /\ LET pairs == Gather(tasks)
           response_map == ResponseMap(pairs)
       IN  results' = [k \in 1..Len(prompt_uids) |-> response_map[prompt_uids[k]]]
    /\ tasks' = <<>>
    /\ bpc' = "done"
    /\ UNCHANGED <<adapter, prompts, offset, prompt_uids, launched>>

\* One generate_async call returns (llm.py:158, bedrock_llm.py:30-42,
\* gpt_llm.py:24-29): a Bedrock task returns the pair (uid, response).
MayFinish(j, running) ==
    \/ Cardinality(running) <= AnyOrderBelow
    \/ \A k \in running : j <= k
    \/ \A k \in running : j >= k

Complete ==
    /\ bpc \in {"gather_all", "gather_wave", "gather_uid"}
    /\ LET running == Running
       IN  \E j \in running :
            /\ MayFinish(j, running)
            /\ tasks' = [tasks EXCEPT ![j].state = "done",
                            ![j].result =
                                IF adapter = "bedrock"
                                THEN <<tasks[j].uid, LLMResponse(tasks[j].prompt, tasks[j].pos)>>
                                ELSE LLMResponse(tasks[j].prompt, tasks[j].pos)]
    /\ UNCHANGED <<adapter, prompts, bpc, offset, prompt_uids, results, launched>>

\* A gather that collects exceptions as results: the batch call goes on.
CallRaisesCollected ==
    /\ bpc \in {"gather_all", "gather_wave", "gather_uid"}
    /\ LET running == Running
       IN  \E j \in running :
            /\ MayFinish(j, running)
            /\ tasks' = [tasks EXCEPT ![j].state = "raised"]
    /\ UNCHANGED <<adapter, prompts, bpc, offset, prompt_uids, results, launched>>

\* One generate_async call raises: asyncio.gather (return_exceptions not set)
\* raises that exception at once in the awaiting generate_batch_async
\* (llm.py:173,180, bedrock_llm.py:120), which has no handler and so raises
\* to its caller. The other tasks of the gather are not cancelled; what they
\* do after the call has ended is not followed here.
CallRaisesInBatch ==
    /\ bpc \in {"gather_all", "gather_wave", "gather_uid"}
    /\ LET running == Running
       IN  \E j \in running :
            /\ MayFinish(j, running)
            /\ tasks' = [tasks EXCEPT ![j].state = "raised"]
    /\ bpc' = "raised"
    /\ UNCHANGED <<adapter, prompts, offset, prompt_uids, results, launched>>

BatchStep ==
    \/ BaseStartSmall
    \/ BaseReturnSmall
    \/ BaseStartWaves
    \/ BaseCollectWave
    \/ BedrockStart
    \/ BedrockReturn
    \/ Complete

BatchNext == BatchStep /\ UNCHANGED <<parseVars, runVars, llmVars, serveVars, adapterVars, endpointVars>>

SpecBatch == BatchInit /\ [][BatchNext]_vars

\* The same call when generate_async may raise, for the largest batch of one
\* gather and the largest batch of several waves.
FailSizes == {MaxSmall, MaxWaves * WAVE_SIZE + MaxExtra}

BatchFailInit ==
    /\ adapter \in Adapters
    /\ \E n \in FailSizes : prompts = PromptSeq(n)
    /\ bpc = "call"
    /\ offset = 0
    /\ tasks = <<>>
    /\ prompt_uids = <<>>
    /\ results = <<>>
    /\ launched = <<>>
    /\ ParseIdle /\ RunIdle /\ LlmIdle /\ ServeIdle /\ AdapterIdle /\ EndpointIdle

BatchFailStep == BatchStep \/ CallRaisesInBatch

BatchFailNext == BatchFailStep /\ UNCHANGED <<parseVars, runVars, llmVars, serveVars, adapterVars, endpointVars>>

SpecBatchFail == BatchFailInit /\ [][BatchFailNext]_vars

\* C1: when generate_batch_async returns, on either adapter and for every
\* batch size and completion order, the returned list has one envelope per
\* prompt and the envelope at position i is the one produced by the call made
\* for prompts[i].
C1_OrderPreserved ==
    bpc = "done" =>
        /\ Len(results) = Len(prompts)
        /\ \A i \in 1..Len(prompts) : results[i] = LLMResponse(prompts[i], i)

\* A batch larger than one wave has been returned by the wave path.
C1_Witness ==
    /\ bpc = "done" /\ adapter = "gpt"
    /\ Len(prompts) > WAVE_SIZE /\ Len(results) > WAVE_SIZE

\* C2: at no moment are more than WAVE_SIZE generate_async calls of one batch
\* in flight, whichever adapter was selected.
C2_WaveCap == InFlight <= WAVE_SIZE

\* C23: on the base scheduler with more than WAVE_SIZE prompts, the calls
\* awaited together are those of one wave, wave k being the prompts at
\* (0-based) positions 50k .. 50k+49 or up to the end; when the first call of
\* a wave has been made, every call of all earlier waves has returned and the
\* list built so far is the earlier waves' envelopes in prompt order; no call
\* is made while a call of the batch is still running; and the returned list
\* is the waves' results concatenated in wave order.
WaveOf(pos) == (pos - 1) \div WAVE_SIZE

C23_WavesInv ==
    (adapter = "gpt" /\ Len(prompts) > WAVE_SIZE /\ bpc # "call") =>
        /\ offset % WAVE_SIZE = 0
        /\ \A i \in 1..Len(launched) : launched[i] = i
        /\ bpc = "gather_wave" =>
             /\ Len(tasks) = Min(WAVE_SIZE, Len(prompts) - offset)
             /\ \A j \in 1..Len(tasks) :
                  /\ tasks[j].pos = offset + j
                  /\ tasks[j].prompt = prompts[offset + j]
                  /\ WaveOf(tasks[j].pos) = offset \div WAVE_SIZE
             /\ Len(launched) = offset + Len(tasks)
             /\ Len(results) = offset
        /\ \A i \in 1..Len(results) : results[i] = LLMResponse(prompts[i], i)
        /\ bpc = "done" => Len(results) = Len(prompts) /\ Len(launched) = Len(prompts)

C24_RaiseInv ==
    /\ \A i \in 1..(Len(launched) - 1) : launched[i] < launched[i + 1]
    /\ (\E j \in 1..Len(tasks) : tasks[j].state = "raised") => bpc = "raised"
    /\ bpc = "done" => \A j \in 1..Len(tasks) : tasks[j].state # "raised"

C24_NoRetryRaiseAborts ==
    /\ []C24_RaiseInv
    /\ [][bpc = "raised" => (bpc' = "raised" /\ launched' = launched)]_vars

\* A call of the first wave of a two-wave batch has raised: the second wave
\* was never launched.
C24_Witness ==
    /\ bpc = "raised" /\ adapter = "gpt"
    /\ Len(prompts) > WAVE_SIZE /\ Len(launched) = WAVE_SIZE
    /\ \E j \in 1..Len(tasks) : tasks[j].state = "raised"


(***************************************************************************)
(* Regulations, provider data and the deterministic rules                  *)
(***************************************************************************)

\* The empty dict {} of the source.
EmptyDict == <<>>

\* dict.get(key, default)
Get(d, key, default) == IF key \in DOMAIN d THEN d[key] ELSE default

\* data/regulations.json is read as is (credentialing_service.py:31-38); its
\* entries follow HardRegulation / SoftRegulation of models/regulation.py.
HardCatalogue ==
    << [id |-> "HR001", name |-> "Medical License",
        data_fields |-> <<"ProfessionalIds">>,
        validation_criteria |-> {"license_status", "license_expiration"}],
       [id |-> "HR002", name |-> "Disciplinary Actions",
        data_fields |-> <<"Disclosure">>,
        validation_criteria |-> {"disciplinary_actions", "license_suspensions"}],
       [id |-> "HR003", name |-> "Malpractice Insurance",
        data_fields |-> <<"PLIs">>,
        validation_criteria |-> {"malpractice_insurance", "coverage_amount"}],
       [id |-> "HR004", name |-> "Board Certification",
        data_fields |-> <<"BoardCertifications">>,
        validation_criteria |-> {"board_certifications", "recertification_status"}],
       [id |-> "HR005", name |-> "Criminal Background",
        data_fields |-> <<"Disclosure">>,
        validation_criteria |-> {"criminal_record", "felony_convictions"}] >>

\* Weights are kept in tenths (0.4 is 4); settings.py:31-35 has the same three.
SoftCatalogue ==
    << [id |-> "SR001", name |-> "Years of Experience",
        data_fields |-> <<"WorkHistory">>, weight |-> 4],
       [id |-> "SR002", name |-> "Continuing Education",
        data_fields |-> <<"ContinuingEducation">>, weight |-> 3],
       [id |-> "SR003", name |-> "Quality Metrics",
        data_fields |-> <<"QualityMetrics">>, weight |-> 3],
       [id |-> "SR004", name |-> "Peer References",
        data_fields |-> <<"PeerReferences">>, weight |-> 2] >>

\* Provider.get_all_data() (models/provider.py:154-156) for the providers of
\* the store; quality_score is kept in tenths (4.2 is 42).
ProviderStore ==
    [ id \in {"P1", "P2"} |->
        IF id = "P1"
        THEN [ ProfessionalIds |-> [license_number |-> "L1"],
               Disclosure |-> [disciplinary_actions |-> <<>>, criminal_record |-> "Clean"],
               PLIs |-> [malpractice_insurance |-> "Active"],
               BoardCertifications |-> [board_certifications |-> <<"ABIM">>],
               WorkHistory |-> [years_experience |-> 18],
               ContinuingEducation |-> [cme_credits |-> 80],
               QualityMetrics |-> [quality_score |-> 42],
               PeerReferences |-> [peer_evaluations |-> "good"] ]
        ELSE [ ProfessionalIds |-> [license_number |-> "L2"],
               Disclosure |-> [disciplinary_actions |-> <<"reprimand">>,
                               criminal_record |-> "Misdemeanor"],
               PLIs |-> [malpractice_insurance |-> "Expired"],
               BoardCertifications |-> [board_certifications |-> <<>>],
               WorkHistory |-> [years_experience |-> 4],
               ContinuingEducation |-> [cme_credits |-> 20],
               QualityMetrics |-> [quality_score |-> 25],
               PeerReferences |-> [peer_evaluations |-> "none"] ] ]

ProviderIds == {"P1", "P2", "P9"}

\* provider_service.py:36-38
get_provider(pid) == IF pid \in DOMAIN ProviderStore THEN ProviderStore[pid] ELSE None

\* if not provider (credentialing_service.py:62)
ProviderFound(pid) == pid \in DOMAIN ProviderStore

SeqToSet(q) == { q[k] : k \in 1..Len(q) }

\* credentialing_service.py:584-602. A dict is a function on its keys; the
\* verification details are added under "verification" when not empty.
_extract_regulation_data(regulation, pdata, vdetails) ==
    LET fields == { f \in SeqToSet(regulation.data_fields) : f \in DOMAIN pdata }
        keys == fields \cup (IF DOMAIN vdetails # {} THEN {"verification"} ELSE {})
    IN  [ k \in keys |-> IF k \in fields THEN pdata[k] ELSE vdetails ]

\* credentialing_service.py:604-648
_validate_hard_regulation(regulation, data) ==
    LET vc == regulation.validation_criteria
    IN  IF "license_status" \in vc /\ "ProfessionalIds" \in DOMAIN data THEN TRUE
        ELSE IF /\ "disciplinary_actions" \in vc /\ "Disclosure" \in DOMAIN data
                /\ Len(Get(data["Disclosure"], "disciplinary_actions", <<>>)) > 0 THEN FALSE
        ELSE IF /\ "malpractice_insurance" \in vc /\ "PLIs" \in DOMAIN data
                /\ Get(data["PLIs"], "malpractice_insurance", "") # "Active" THEN FALSE
        ELSE IF /\ "board_certification" \in vc /\ "BoardCertifications" \in DOMAIN data
                /\ Len(Get(data["BoardCertifications"], "board_certifications", <<>>)) = 0 THEN FALSE
        ELSE IF /\ "criminal_record" \in vc /\ "Disclosure" \in DOMAIN data
                /\ Get(data["Disclosure"], "criminal_record", "") # "Clean" THEN FALSE
        ELSE TRUE

\* The five-step ladders of _score_soft_regulation.
Ladder(v, t5, t4, t3, t2) ==
    IF v >= t5 THEN 5 ELSE IF v >= t4 THEN 4 ELSE IF v >= t3 THEN 3
    ELSE IF v >= t2 THEN 2 ELSE 1

\* credentialing_service.py:650-701. The if/elif chain is on the regulation
\* id: a matching id whose field is absent from data falls to the default 3.
_score_soft_regulation_zero_default(regulation, data) ==
    IF regulation.id = "SR001" /\ "WorkHistory" \in DOMAIN data
    THEN Ladder(Get(data["WorkHistory"], "years_experience", 0), 16, 11, 6, 3)
    ELSE 0
_score_soft_regulation(regulation, data) ==
    IF regulation.id = "SR001" /\ "WorkHistory" \in DOMAIN data
    THEN Ladder(Get(data["WorkHistory"], "years_experience", 0), 16, 11, 6, 3)
    ELSE IF regulation.id = "SR002" /\ "ContinuingEducation" \in DOMAIN data
    THEN Ladder(Get(data["ContinuingEducation"], "cme_credits", 0), 100, 76, 51, 26)
    ELSE IF regulation.id = "SR003" /\ "QualityMetrics" \in DOMAIN data
    THEN Ladder(Get(data["QualityMetrics"], "quality_score", 0), 41, 31, 21, 11)
    ELSE 3

(***************************************************************************)
(* Response texts and the two parsers                                      *)
(***************************************************************************)

\* A text is a sequence of one-character strings.
UpperLetters == <<"A", "B", "C", "D", "E", "F", "G", "H", "I", "J", "K", "L", "M", "N", "O", "P", "Q", "R", "S", "T", "U", "V", "W", "X", "Y", "Z">>
LowerLetters == <<"a", "b", "c", "d", "e", "f", "g", "h", "i", "j", "k", "l", "m", "n", "o", "p", "q", "r", "s", "t", "u", "v", "w", "x", "y", "z">>
UpperCase == { UpperLetters[k] : k \in 1..Len(UpperLetters) }
LowerCase == { LowerLetters[k] : k \in 1..Len(LowerLetters) }
Digits == {"0", "1", "2", "3", "4", "5", "6", "7", "8", "9"}

\* str.lower()
LowerChar(c) ==
    IF c \in UpperCase
    THEN LowerLetters[CHOOSE k \in 1..Len(UpperLetters) : UpperLetters[k] = c]
    ELSE c
Lower(text) == [k \in 1..Len(text) |-> LowerChar(text[k])]

\* str.strip()
RECURSIVE LStrip(_)
LStrip(text) ==
    IF text # <<>> /\ Head(text) = " " THEN LStrip(Tail(text)) ELSE text
RECURSIVE RStrip(_)
RStrip(text) ==
    IF text # <<>> /\ text[Len(text)] = " "
    THEN RStrip(SubSeq(text, 1, Len(text) - 1)) ELSE text
Strip(text) == LStrip(RStrip(text))

\* sub in text
Contains(text, sub) ==
    \E k \in 1..(Len(text) - Len(sub) + 1) : SubSeq(text, k, k + Len(sub) - 1) = sub

PassWord == <<"p", "a", "s", "s">>
FailWord == <<"f", "a", "i", "l">>

\* credentialing_service.py:876-887
_parse_hard_regulation_response_pass_first(response_text, regulation) ==
    LET response_lower == Strip(Lower(response_text))
    IN  IF Contains(response_lower, PassWord) THEN TRUE
        ELSE IF Contains(response_lower, FailWord) THEN FALSE
        ELSE _validate_hard_regulation(regulation, EmptyDict)
_parse_hard_regulation_response(response_text, regulation) ==
    LET response_lower == Strip(Lower(response_text))
    IN  IF Contains(response_lower, PassWord) /\ ~Contains(response_lower, FailWord)
        THEN TRUE
        ELSE IF Contains(response_lower, FailWord) THEN FALSE
        ELSE _validate_hard_regulation(regulation, EmptyDict)

\* \w of the re module
IsWordChar(c) == c \in UpperCase \cup LowerCase \cup Digits \cup {"_"}

\* \b before position k / after position k of a word character at k
BoundaryBefore(text, k) == k = 1 \/ ~IsWordChar(text[k - 1])
BoundaryAfter(text, k) == k = Len(text) \/ ~IsWordChar(text[k + 1])

DigitValue(c) ==
    CASE c = "1" -> 1 [] c = "2" -> 2 [] c = "3" -> 3 [] c = "4" -> 4 [] c = "5" -> 5

\* re.search(r'\b([1-5])\b', text): the scan from position k on, leftmost match;
\* 0 stands for no match (None).
RECURSIVE ReSearchScoreFrom(_, _)
ReSearchScoreFrom(text, k) ==
    IF k > Len(text) THEN 0
    ELSE IF /\ text[k] \in {"1", "2", "3", "4", "5"}
            /\ BoundaryBefore(text, k) /\ BoundaryAfter(text, k)
         THEN DigitValue(text[k])
         ELSE ReSearchScoreFrom(text, k + 1)

\* The same scan without the \b assertions.
RECURSIVE ReSearchAnyDigitFrom(_, _)
ReSearchAnyDigitFrom(text, k) ==
    IF k > Len(text) THEN 0
    ELSE IF text[k] \in {"1", "2", "3", "4", "5"}
         THEN DigitValue(text[k])
         ELSE ReSearchAnyDigitFrom(text, k + 1)

\* credentialing_service.py:889-900
_parse_soft_regulation_response_any_digit(response_text, regulation) ==
    LET score_match == ReSearchAnyDigitFrom(response_text, 1)
    IN  IF score_match # 0 THEN score_match
        ELSE _score_soft_regulation(regulation, EmptyDict)
_parse_soft_regulation_response(response_text, regulation) ==
    LET score_match == ReSearchScoreFrom(response_text, 1)
    IN  IF score_match # 0 THEN score_match
        ELSE _score_soft_regulation(regulation, EmptyDict)

\* The pieces response texts are built from, and the texts of at most
\* MaxFrags pieces.
MaxFrags == 3
Fragments ==
    { <<"P", "A", "S", "S">>, <<"F", "a", "i", "l">>, <<"p", "a">>, <<"S", "s">>,
      <<"f", "A">>, <<"i", "L">>, <<" ">>, <<"x">>, <<"3">>, <<"7">>, <<"x", "1">>,
      <<"_">>, <<".">> }

RECURSIVE TextsOf(_)
TextsOf(n) ==
    IF n = 0 THEN {<<>>}
    ELSE LET shorter == TextsOf(n - 1)
         IN  shorter \cup { t \o f : t \in shorter, f \in Fragments }

Texts == TextsOf(MaxFrags)

ParseInit ==
    /\ response_content \in Texts
    /\ parse_reg \in 1..2
    /\ ppc = "new"
    /\ hard_passed = None
    /\ soft_score = 0
    /\ BatchIdle /\ RunIdle /\ LlmIdle /\ ServeIdle /\ AdapterIdle /\ EndpointIdle

\* passed = self._parse_hard_regulation_response(response.content, regulation)
ParseHard ==
    /\ ppc = "new"
    /\ hard_passed' = _parse_hard_regulation_response(response_content, HardCatalogue[parse_reg])
    /\ ppc' = "hard"
    /\ UNCHANGED <<response_content, parse_reg, soft_score>>

\* score = self._parse_soft_regulation_response(response.content, regulation)
ParseSoft ==
    /\ ppc = "hard"
    /\ soft_score' = _parse_soft_regulation_response(response_content, SoftCatalogue[parse_reg])
    /\ ppc' = "soft"
    /\ UNCHANGED <<response_content, parse_reg, hard_passed>>

ParseStep == ParseHard \/ ParseSoft

ParseNext == ParseStep /\ UNCHANGED <<batchVars, runVars, llmVars, serveVars, adapterVars, endpointVars>>

SpecParse == ParseInit /\ [][ParseNext]_vars

\* C7: a response containing "fail" in any letter case parses to passed=False
\* even when it also contains "pass"; one containing "pass" in any case and
\* no "fail" parses to passed=True.
C7_FailWins ==
    ppc \in {"hard", "soft"} =>
        LET low == Lower(response_content)
        IN  /\ Contains(low, FailWord) => hard_passed = FALSE
            /\ (Contains(low, PassWord) /\ ~Contains(low, FailWord)) => hard_passed = TRUE

\* A response holding both words, in mixed case, has been parsed.
C7_Witness ==
    /\ ppc = "hard"
    /\ Contains(Lower(response_content), FailWord)
    /\ Contains(Lower(response_content), PassWord)
    /\ ~Contains(response_content, FailWord)
    /\ hard_passed = FALSE

\* Position k of the text holds a digit 1..5 with a word boundary on both sides.
Standalone(text, k) ==
    /\ text[k] \in {"1", "2", "3", "4", "5"}
    /\ (k > 1 => text[k - 1] \notin UpperCase \cup LowerCase \cup Digits \cup {"_"})
    /\ (k < Len(text) => text[k + 1] \notin UpperCase \cup LowerCase \cup Digits \cup {"_"})

\* C10: when the text has a standalone digit 1..5, the soft parser returns the
\* one at the lowest position; digits next to a letter, digit or underscore
\* and the digits 0, 6..9 are passed over.
C10_FirstStandaloneDigit ==
    ppc = "soft" =>
        \A k \in 1..Len(response_content) :
            ( /\ Standalone(response_content, k)
              /\ \A j \in 1..(k - 1) : ~Standalone(response_content, j) )
            => soft_score = DigitValue(response_content[k])

\* A text whose first digit 1..5 is not standalone and whose later one is.
C10_Witness ==
    /\ ppc = "soft"
    /\ \E j, k \in 1..Len(response_content) :
        /\ j < k
        /\ response_content[j] \in {"1", "3"} /\ ~Standalone(response_content, j)
        /\ Standalone(response_content, k)
        /\ response_content[k] # response_content[j]
        /\ soft_score = DigitValue(response_content[k])

(***************************************************************************)
(* Pricing table, response envelope and unified provider                   *)
(***************************************************************************)

\* llm.py:15-38, in insertion order.  Rates are per 1000 tokens, in units of
\* 0.00001 dollar, so that every rate of the table is an integer.
LLM_PRICING ==
    <<
      [key |-> <<"g", "p", "t", "-", "4", ".", "1">>,
       pricing |-> <<200, 800>>],
      [key |-> <<"g", "p", "t", "-", "4">>,
       pricing |-> <<3000, 6000>>],
      [key |-> <<"g", "p", "t", "-", "4", "-", "t", "u", "r", "b", "o">>,
       pricing |-> <<1000, 3000>>],
      [key |-> <<"g", "p", "t", "-", "4", "-", "t", "u", "r", "b", "o", "-", "p", "r", "e", "v", "i", "e", "w">>,
       pricing |-> <<1000, 3000>>],
      [key |-> <<"g", "p", "t", "-", "4", "o">>,
       pricing |-> <<500, 1500>>],
      [key |-> <<"g", "p", "t", "-", "4", "o", "-", "m", "i", "n", "i">>,
       pricing |-> <<15, 60>>],
      [key |-> <<"g", "p", "t", "-", "3", ".", "5", "-", "t", "u", "r", "b", "o">>,
       pricing |-> <<150, 200>>],
      [key |-> <<"g", "p", "t", "-", "3", ".", "5", "-", "t", "u", "r", "b", "o", "-", "1", "6", "k">>,
       pricing |-> <<300, 400>>],
      [key |-> <<"a", "n", "t", "h", "r", "o", "p", "i", "c", ".", "c", "l", "a", "u", "d", "e", "-", "3", "-", "s", "o", "n", "n", "e", "t", "-", "2", "0", "2", "4", "0", "2", "2", "9", "-", "v", "1", ":", "0">>,
       pricing |-> <<300, 1500>>],
      [key |-> <<"a", "n", "t", "h", "r", "o", "p", "i", "c", ".", "c", "l", "a", "u", "d", "e", "-", "3", "-", "h", "a", "i", "k", "u", "-", "2", "0", "2", "4", "0", "3", "0", "7", "-", "v", "1", ":", "0">>,
       pricing |-> <<25, 125>>],
      [key |-> <<"a", "n", "t", "h", "r", "o", "p", "i", "c", ".", "c", "l", "a", "u", "d", "e", "-", "3", "-", "o", "p", "u", "s", "-", "2", "0", "2", "4", "0", "2", "2", "9", "-", "v", "1", ":", "0">>,
       pricing |-> <<1500, 7500>>],
      [key |-> <<"a", "n", "t", "h", "r", "o", "p", "i", "c", ".", "c", "l", "a", "u", "d", "e", "-", "3", "-", "5", "-", "s", "o", "n", "n", "e", "t", "-", "2", "0", "2", "4", "0", "6", "2", "0", "-", "v", "1", ":", "0">>,
       pricing |-> <<300, 1500>>],
      [key |-> <<"a", "n", "t", "h", "r", "o", "p", "i", "c", ".", "c", "l", "a", "u", "d", "e", "-", "v", "2">>,
       pricing |-> <<800, 2400>>],
      [key |-> <<"a", "n", "t", "h", "r", "o", "p", "i", "c", ".", "c", "l", "a", "u", "d", "e", "-", "v", "2", ":", "1">>,
       pricing |-> <<800, 2400>>],
      [key |-> <<"a", "n", "t", "h", "r", "o", "p", "i", "c", ".", "c", "l", "a", "u", "d", "e", "-", "i", "n", "s", "t", "a", "n", "t", "-", "v", "1">>,
       pricing |-> <<80, 240>>],
      [key |-> <<"a", "m", "a", "z", "o", "n", ".", "t", "i", "t", "a", "n", "-", "t", "e", "x", "t", "-", "l", "i", "t", "e", "-", "v", "1">>,
       pricing |-> <<30, 40>>],
      [key |-> <<"a", "m", "a", "z", "o", "n", ".", "t", "i", "t", "a", "n", "-", "t", "e", "x", "t", "-", "e", "x", "p", "r", "e", "s", "s", "-", "v", "1">>,
       pricing |-> <<80, 160>>],
      [key |-> <<"d", "e", "f", "a", "u", "l", "t">>,
       pricing |-> <<300, 1500>>]
    >>

DefaultKey == <<"d", "e", "f", "a", "u", "l", "t">>

\* LLM_PRICING[key]
PricingOf(key) ==
    LLM_PRICING[CHOOSE k \in 1..Len(LLM_PRICING) : LLM_PRICING[k].key = key].pricing

\* llm.py:58-60: the first key, in insertion order, that occurs in the name.
FamilyMatches(name) ==
    { k \in 1..Len(LLM_PRICING) :
        LLM_PRICING[k].key # DefaultKey /\ Contains(name, LLM_PRICING[k].key) }

FirstOf(S) == CHOOSE k \in S : \A j \in S : k <= j

\* llm.py:62-96
FamilyHeuristics(name) ==
    IF Contains(name, <<"g", "p", "t", "-", "4">>) THEN
        IF Contains(name, <<"t", "u", "r", "b", "o">>) \/ Contains(name, <<"p", "r", "e", "v", "i", "e", "w">>) THEN PricingOf(<<"g", "p", "t", "-", "4", "-", "t", "u", "r", "b", "o">>)
        ELSE IF Contains(name, <<"m", "i", "n", "i">>) THEN PricingOf(<<"g", "p", "t", "-", "4", "o", "-", "m", "i", "n", "i">>)
        ELSE PricingOf(<<"g", "p", "t", "-", "4">>)
    ELSE IF Contains(name, <<"g", "p", "t", "-", "3", ".", "5">>) THEN
        IF Contains(name, <<"1", "6", "k">>) THEN PricingOf(<<"g", "p", "t", "-", "3", ".", "5", "-", "t", "u", "r", "b", "o", "-", "1", "6", "k">>)
        ELSE PricingOf(<<"g", "p", "t", "-", "3", ".", "5", "-", "t", "u", "r", "b", "o">>)
    ELSE IF Contains(name, <<"c", "l", "a", "u", "d", "e", "-", "3", "-", "5">>) THEN PricingOf(<<"a", "n", "t", "h", "r", "o", "p", "i", "c", ".", "c", "l", "a", "u", "d", "e", "-", "3", "-", "5", "-", "s", "o", "n", "n", "e", "t", "-", "2", "0", "2", "4", "0", "6", "2", "0", "-", "v", "1", ":", "0">>)
    ELSE IF Contains(name, <<"c", "l", "a", "u", "d", "e", "-", "3">>) THEN
        IF Contains(name, <<"o", "p", "u", "s">>) THEN PricingOf(<<"a", "n", "t", "h", "r", "o", "p", "i", "c", ".", "c", "l", "a", "u", "d", "e", "-", "3", "-", "o", "p", "u", "s", "-", "2", "0", "2", "4", "0", "2", "2", "9", "-", "v", "1", ":", "0">>)
        ELSE IF Contains(name, <<"h", "a", "i", "k", "u">>) THEN PricingOf(<<"a", "n", "t", "h", "r", "o", "p", "i", "c", ".", "c", "l", "a", "u", "d", "e", "-", "3", "-", "h", "a", "i", "k", "u", "-", "2", "0", "2", "4", "0", "3", "0", "7", "-", "v", "1", ":", "0">>)
        ELSE PricingOf(<<"a", "n", "t", "h", "r", "o", "p", "i", "c", ".", "c", "l", "a", "u", "d", "e", "-", "3", "-", "s", "o", "n", "n", "e", "t", "-", "2", "0", "2", "4", "0", "2", "2", "9", "-", "v", "1", ":", "0">>)
    ELSE IF Contains(name, <<"c", "l", "a", "u", "d", "e">>) THEN
        IF Contains(name, <<"i", "n", "s", "t", "a", "n", "t">>) THEN PricingOf(<<"a", "n", "t", "h", "r", "o", "p", "i", "c", ".", "c", "l", "a", "u", "d", "e", "-", "i", "n", "s", "t", "a", "n", "t", "-", "v", "1">>)
        ELSE PricingOf(<<"a", "n", "t", "h", "r", "o", "p", "i", "c", ".", "c", "l", "a", "u", "d", "e", "-", "v", "2">>)
    ELSE IF Contains(name, <<"t", "i", "t", "a", "n">>) THEN
        IF Contains(name, <<"e", "x", "p", "r", "e", "s", "s">>) THEN PricingOf(<<"a", "m", "a", "z", "o", "n", ".", "t", "i", "t", "a", "n", "-", "t", "e", "x", "t", "-", "e", "x", "p", "r", "e", "s", "s", "-", "v", "1">>)
        ELSE PricingOf(<<"a", "m", "a", "z", "o", "n", ".", "t", "i", "t", "a", "n", "-", "t", "e", "x", "t", "-", "l", "i", "t", "e", "-", "v", "1">>)
    ELSE PricingOf(DefaultKey)

\* llm.py:41-96
get_model_pricing(raw_name) ==
    LET name == Strip(Lower(raw_name))
    IN  IF \E k \in 1..Len(LLM_PRICING) : LLM_PRICING[k].key = name
        THEN PricingOf(name)
        ELSE IF FamilyMatches(name) # {}
        THEN LLM_PRICING[FirstOf(FamilyMatches(name))].pricing
        ELSE FamilyHeuristics(name)

\* llm.py:99-123.  Costs are in units of 0.00000001 dollar: tokens / 1000 times
\* a rate in 0.00001 dollar is tokens * rate in that unit, an integer.
LLMResponseEnvelope_default_rate(content, in_tokens, out_tokens, total, name) ==
    [content |-> content, input_tokens |-> in_tokens, output_tokens |-> out_tokens,
     total_tokens |-> total, model_name |-> name,
     input_cost |-> in_tokens * 300, output_cost |-> out_tokens * 1500,
     total_cost |-> in_tokens * 300 + out_tokens * 1500]
LLMResponseEnvelope(content, in_tokens, out_tokens, total, name) ==
    LET pricing == get_model_pricing(name)
        input_cost == in_tokens * pricing[1]
        output_cost == out_tokens * pricing[2]
    IN  [content |-> content, input_tokens |-> in_tokens, output_tokens |-> out_tokens,
         total_tokens |-> total, model_name |-> name,
         input_cost |-> input_cost, output_cost |-> output_cost,
         total_cost |-> input_cost + output_cost]

\* str.startswith
StartsWith(text, prefix) ==
    Len(text) >= Len(prefix) /\ SubSeq(text, 1, Len(prefix)) = prefix

\* unified_llm.py:27-41: the adapter, or "ValueError".
_select_provider_lenient(name) ==
    IF StartsWith(Lower(name), <<"a">>) THEN "bedrock" ELSE "gpt"
_select_provider(name) ==
    LET model_name_lower == Lower(name)
    IN  IF StartsWith(model_name_lower, <<"a", "n", "t", "h", "r", "o", "p", "i", "c">>) \/ StartsWith(model_name_lower, <<"a", "m", "a", "z", "o", "n">>)
        THEN "bedrock"
        ELSE IF StartsWith(model_name_lower, <<"g", "p", "t", "-">>) \/ StartsWith(model_name_lower, <<"o", "p", "e", "n", "a", "i">>)
        THEN "gpt"
        ELSE "ValueError"

\* Model identifiers explored: table keys, case and blank variants, family
\* variants reaching each branch of the heuristics, and unknown names.
ModelNames ==
    {
      <<"g", "p", "t", "-", "4", "o", "-", "m", "i", "n", "i">>,
      <<"G", "P", "T", "-", "4", "o", "-", "M", "i", "n", "i", " ">>,
      <<"g", "p", "t", "-", "4", "-", "t", "u", "r", "b", "o">>,
      <<"g", "p", "t", "-", "4", "-", "t", "u", "r", "b", "o", "-", "p", "r", "e", "v", "i", "e", "w", "-", "c", "u", "s", "t", "o", "m">>,
      <<"g", "p", "t", "-", "4", "o", "-", "2", "0", "2", "4">>,
      <<"g", "p", "t", "-", "3", ".", "5", "-", "1", "6", "k">>,
      <<"g", "p", "t", "-", "3", ".", "5", "-", "x">>,
      <<"c", "l", "a", "u", "d", "e", "-", "3", "-", "5", "-", "x">>,
      <<"c", "l", "a", "u", "d", "e", "-", "3", "-", "o", "p", "u", "s">>,
      <<"c", "l", "a", "u", "d", "e", "-", "3", "-", "h", "a", "i", "k", "u">>,
      <<"c", "l", "a", "u", "d", "e", "-", "3", "-", "x">>,
      <<"c", "l", "a", "u", "d", "e", "-", "i", "n", "s", "t", "a", "n", "t">>,
      <<"c", "l", "a", "u", "d", "e", "-", "x">>,
      <<"t", "i", "t", "a", "n", "-", "e", "x", "p", "r", "e", "s", "s">>,
      <<"t", "i", "t", "a", "n", "-", "x">>,
      <<"a", "n", "t", "h", "r", "o", "p", "i", "c", ".", "c", "l", "a", "u", "d", "e", "-", "v", "2">>,
      <<"A", "m", "a", "z", "o", "n", ".", "t", "i", "t", "a", "n", "-", "t", "e", "x", "t", "-", "l", "i", "t", "e", "-", "v", "1">>,
      <<"o", "p", "e", "n", "a", "i", "-", "x">>,
      <<"g", "p", "t", "4">>,
      <<"l", "l", "a", "m", "a">>,
      <<>>
    }

\* Token counts explored: 0, 1, 999, and whole thousands up to MaxKilo.
MaxKilo == 2
TokenCounts == {0, 1, 999} \cup { 1000 * k : k \in 1..MaxKilo }
\* Calls made on one provider object.
MaxCalls == 2

LlmInit ==
    /\ model_name \in ModelNames
    /\ input_tokens \in TokenCounts
    /\ output_tokens \in TokenCounts
    /\ upc = "new" /\ provider = None /\ provider_calls = 0
    /\ envelope = NoEnvelope
    /\ BatchIdle /\ ParseIdle /\ RunIdle /\ ServeIdle /\ AdapterIdle /\ EndpointIdle

\* unified_llm.py:14-25: LLMProvider(model_name)
ConstructProvider ==
    /\ upc = "new"
    /\ LET p == _select_provider(model_name)
       IN  IF p = "ValueError"
           THEN upc' = "config_error" /\ provider' = None
           ELSE upc' = "ready" /\ provider' = p
    /\ UNCHANGED <<model_name, input_tokens, output_tokens, provider_calls, envelope>>

\* unified_llm.py:46-47 and the adapters' _process_response: a call on the
\* provider object, answered with an envelope carrying the adapter's model name.
GenerateAsync ==
    /\ upc = "ready" /\ provider # None
    /\ provider_calls < MaxCalls
    /\ provider_calls' = provider_calls + 1
    /\ envelope' = LLMResponseEnvelope("text", input_tokens, output_tokens,
                                       input_tokens + output_tokens, model_name)
    /\ UNCHANGED <<model_name, input_tokens, output_tokens, upc, provider>>

\* llm.py:99-123: LLMResponse(...) built directly from a model name.
ConstructEnvelope ==
    /\ envelope = NoEnvelope
    /\ envelope' = LLMResponseEnvelope("text", input_tokens, output_tokens,
                                       input_tokens + output_tokens, model_name)
    /\ UNCHANGED <<model_name, input_tokens, output_tokens, upc, provider, provider_calls>>

LlmStep == ConstructProvider \/ GenerateAsync \/ ConstructEnvelope

LlmNext == LlmStep /\ UNCHANGED <<batchVars, parseVars, runVars, serveVars, adapterVars, endpointVars>>

SpecLLM == LlmInit /\ [][LlmNext]_vars

\* C11: an envelope priced for "gpt-4-turbo-preview-custom" is charged at the
\* gpt-4-turbo rate pair (0.01, 0.03) per 1000 tokens.
C11_TurboVariantRate ==
    (envelope # NoEnvelope /\ Strip(Lower(model_name)) = <<"g", "p", "t", "-", "4", "-", "t", "u", "r", "b", "o", "-", "p", "r", "e", "v", "i", "e", "w", "-", "c", "u", "s", "t", "o", "m">>) =>
        /\ get_model_pricing(model_name) = <<1000, 3000>>
        /\ envelope.input_cost = input_tokens * 1000
        /\ envelope.output_cost = output_tokens * 3000

\* C12: every envelope built holds input_cost = input_tokens/1000 * input rate,
\* output_cost = output_tokens/1000 * output rate and their sum as total_cost,
\* the rates being those of the pricing function for the model name; a name that
\* matches no key and no family is charged the default pair (0.003, 0.015); and
\* 1000/1000 tokens on gpt-4o-mini cost 0.00015, 0.0006 and 0.00075.
UnknownNames == { <<"l", "l", "a", "m", "a">>, <<"g", "p", "t", "4">>, <<>> }

C14_SelectOrFail ==
    /\ upc \in {"ready", "config_error"} =>
        LET l == Lower(model_name)
            bedrock == StartsWith(l, <<"a", "n", "t", "h", "r", "o", "p", "i", "c">>) \/ StartsWith(l, <<"a", "m", "a", "z", "o", "n">>)
            gpt == StartsWith(l, <<"g", "p", "t", "-">>) \/ StartsWith(l, <<"o", "p", "e", "n", "a", "i">>)
        IN  /\ bedrock => (upc = "ready" /\ provider = "bedrock")
            /\ (gpt /\ ~bedrock) => (upc = "ready" /\ provider = "gpt")
            /\ (~gpt /\ ~bedrock) =>
                 (upc = "config_error" /\ provider = None /\ provider_calls = 0)
    /\ provider_calls > 0 => provider \in {"bedrock", "gpt"}

\* "gpt4", without the dash, ended in the configuration error.
C14_Witness ==
    /\ upc = "config_error" /\ model_name = <<"g", "p", "t", "4">>
    /\ provider = None /\ provider_calls = 0

(***************************************************************************)
(* Backend adapters: one call and its response processing                  *)
(***************************************************************************)

\* The usage_metadata attribute of a vendor response: absent from the object,
\* present and None, or a dict of token counts (keys may be absent).
UsageMissing == [kind |-> "missing"]
UsageNone == [kind |-> "none"]
UsageDict(d) == [kind |-> "dict", dict |-> d]
UsageDicts ==
    { [input_tokens |-> i, output_tokens |-> o, total_tokens |-> i + o] :
          i \in TokenCounts, o \in TokenCounts }
    \cup { [input_tokens |-> i] : i \in TokenCounts }
    \cup { EmptyDict }

\* Responses of self.llm.invoke: with or without a content attribute.
VendorResponses ==
    { [has_content |-> c, usage_metadata |-> u] :
          c \in BOOLEAN,
          u \in {UsageMissing, UsageNone} \cup { UsageDict(d) : d \in UsageDicts } }

\* Python's None as a value on which .get is not defined.
NoneObject == [is_none |-> TRUE]

\* getattr(response, "usage_metadata", {}): the default only replaces an absent
\* attribute; an attribute holding None is returned as None.
UsageInfo(response) ==
    IF response.usage_metadata.kind = "missing" THEN EmptyDict
    ELSE IF response.usage_metadata.kind = "none" THEN NoneObject
    ELSE response.usage_metadata.dict

AttributeError == [raised |-> "AttributeError"]

\* bedrock_llm.py:44-78, gpt_llm.py:31-61: the envelope, or the exception that
\* usage_info.get raises when usage_info is None.
_process_response(response, name) ==
    IF response.has_content
    THEN LET usage_info == UsageInfo(response)
         IN  IF usage_info = NoneObject
             THEN AttributeError
             ELSE LLMResponseEnvelope("content",
                                      Get(usage_info, "input_tokens", 0),
                                      Get(usage_info, "output_tokens", 0),
                                      Get(usage_info, "total_tokens", 0), name)
    ELSE LLMResponseEnvelope("str(response)", 0, 0, 0, name)

AdapterModels ==
    [bedrock |-> <<"a", "n", "t", "h", "r", "o", "p", "i", "c", ".", "c", "l", "a", "u", "d", "e", "-", "v", "2">>,
     gpt |-> <<"g", "p", "t", "-", "4", "o", "-", "m", "i", "n", "i">>]

AdapterInit ==
    /\ adapter_class \in {"bedrock", "gpt"}
    /\ adapter_model = AdapterModels[adapter_class]
    /\ vendor_response \in VendorResponses
    /\ adapter_method = None /\ apc = "new" /\ adapter_result = NoEnvelope
    /\ BatchIdle /\ ParseIdle /\ RunIdle /\ LlmIdle /\ ServeIdle /\ EndpointIdle

\* The call returns what _process_response returns and raises what it raises.
AdapterCall(method) ==
    /\ apc = "new"
    /\ adapter_method' = method
    /\ LET r == _process_response(vendor_response, adapter_model)
       IN  IF r = AttributeError
           THEN apc' = "raised" /\ adapter_result' = NoEnvelope
           ELSE apc' = "returned" /\ adapter_result' = r
    /\ UNCHANGED <<adapter_class, adapter_model, vendor_response>>

\* bedrock_llm.py:25-28, gpt_llm.py:20-22: generate
AdapterGenerate == AdapterCall("generate")

\* bedrock_llm.py:30-35, gpt_llm.py:24-29: generate_async
AdapterGenerateAsync == AdapterCall("generate_async")

AdapterStep == AdapterGenerate \/ AdapterGenerateAsync

AdapterNext == AdapterStep /\ UNCHANGED <<batchVars, parseVars, runVars, llmVars, serveVars, endpointVars>>

SpecAdapter == AdapterInit /\ [][AdapterNext]_vars

\* C21: once generate or generate_async has been called for a vendor response
\* that has content and whose usage metadata is missing or None, the call has
\* returned an envelope with input, output and total tokens 0, and has not raised.
C21_AbsentUsageGivesZero ==
    ( /\ apc \in {"returned", "raised"}
      /\ vendor_response.has_content
      /\ vendor_response.usage_metadata.kind \in {"missing", "none"} ) =>
        /\ apc = "returned"
        /\ adapter_result.input_tokens = 0
        /\ adapter_result.output_tokens = 0
        /\ adapter_result.total_tokens = 0


(***************************************************************************)
(* Credentialing orchestrator                                              *)
(***************************************************************************)

\* Regulations configured in one run: the first MaxHard / MaxSoft entries of
\* the catalogues at most.
MaxHard == 2
MaxSoft == 2

\* response.content of one envelope: a str, or a value that is not a str
\* (a list of content blocks), on which .lower() and re.search raise.
StrContent(text) == [is_str |-> TRUE, text |-> text]
NonStrContent == [is_str |-> FALSE, text |-> <<>>]

HardReplies ==
    { StrContent(<<"P", "A", "S", "S">>), StrContent(<<"F", "a", "i", "l">>),
      StrContent(<<"x">>), NonStrContent }
SoftReplies == { StrContent(<<"5">>), StrContent(<<"7">>), NonStrContent }

\* What awaiting generate_batch_async(prompts) for n prompts gives: an
\* exception, or one response per prompt in prompt order.
BatchOutcomes(n, replies) ==
    { [raised |-> TRUE, responses |-> <<>>] } \cup
    { [raised |-> FALSE, responses |-> r] : r \in [1..n -> replies] }

\* models/credentialing_result.py:19-36 (details and names left out)
HardRegulationResult(regulation, passed) ==
    [regulation_id |-> regulation.id, passed |-> passed]
SoftRegulationResult(regulation, score) ==
    [regulation_id |-> regulation.id, score |-> score, weight |-> regulation.weight,
     weighted_score |-> score * regulation.weight]

\* Index of the first response whose content the parser raises on, 0 if none.
FirstUnparsable(responses) ==
    LET bad == { i \in 1..Len(responses) : ~responses[i].is_str }
    IN  IF bad = {} THEN 0 ELSE CHOOSE i \in bad : \A j \in bad : i <= j

\* credentialing_service.py:439-472: the except branch of the hard phase.
HardFallback(regs, pdata, vdetails) ==
    [ i \in 1..Len(regs) |->
        HardRegulationResult(regs[i],
            _validate_hard_regulation(regs[i],
                _extract_regulation_data(regs[i], pdata, vdetails))) ]

\* credentialing_service.py:361-474. The loop over the responses and the
\* batch call share one try: an exception at response k leaves the k-1
\* results already appended and the except branch appends one per regulation.
_check_hard_regulations_no_fallback(regs, pdata, vdetails, outcome) ==
    [ i \in 1..Len(outcome.responses) |->
        HardRegulationResult(regs[i], outcome.responses[i].is_str) ]
_check_hard_regulations(regs, pdata, vdetails, outcome) ==
    LET stop == FirstUnparsable(outcome.responses)
        n == IF stop = 0 THEN Len(outcome.responses) ELSE stop - 1
        parsed == [ i \in 1..n |->
                      HardRegulationResult(regs[i],
                          _parse_hard_regulation_response(outcome.responses[i].text, regs[i])) ]
    IN  IF outcome.raised THEN HardFallback(regs, pdata, vdetails)
        ELSE IF stop # 0 THEN parsed \o HardFallback(regs, pdata, vdetails)
        ELSE parsed

\* credentialing_service.py:550-580: the except branch of the soft phase.
SoftFallback(regs, pdata) ==
    [ i \in 1..Len(regs) |->
        SoftRegulationResult(regs[i],
            _score_soft_regulation(regs[i],
                _extract_regulation_data(regs[i], pdata, EmptyDict))) ]

\* credentialing_service.py:476-582
_score_soft_regulations(regs, pdata, outcome) ==
    LET stop == FirstUnparsable(outcome.responses)
        n == IF stop = 0 THEN Len(outcome.responses) ELSE stop - 1
        parsed == [ i \in 1..n |->
                      SoftRegulationResult(regs[i],
                          _parse_soft_regulation_response(outcome.responses[i].text, regs[i])) ]
    IN  IF outcome.raised THEN SoftFallback(regs, pdata)
        ELSE IF stop # 0 THEN parsed \o SoftFallback(regs, pdata)
        ELSE parsed

RECURSIVE SumOf(_, _)
SumOf(rs, field) ==
    IF rs = <<>> THEN 0 ELSE rs[1][field] + SumOf(Tail(rs), field)

\* round(a / b) for a >= 0, b > 0 held in tenths: Python rounds the float
\* quotient to the nearest integer. When a / b is exactly halfway the float
\* quotient is the tie or a neighbour of it (sums of 0.3, 0.7 ... are not
\* exact), so either integer can result: round((0.7 + 1.4) / 1.4) = 1,
\* round((0.1 + 3.5) / 0.8) = 5, round((2.0 + 2.5) / 1.0) = 4.
RoundQuotient(a, b) ==
    LET q == a \div b
        r == a % b
    IN  IF 2 * r < b THEN {q} ELSE IF 2 * r > b THEN {q + 1} ELSE {q, q + 1}

\* int(a / b): the quotient truncated instead of rounded.
TruncQuotient(a, b) == {a \div b}

\* credentialing_service.py:703-719: the values the function can return.
_calculate_overall_score_truncating(srs) ==
    IF srs = <<>> THEN {1}
    ELSE IF SumOf(srs, "weight") = 0 THEN {1}
    ELSE { Max(1, Min(5, n)) :
             n \in TruncQuotient(SumOf(srs, "weighted_score"), SumOf(srs, "weight")) }
_calculate_overall_score(srs) ==
    IF srs = <<>> THEN {1}
    ELSE IF SumOf(srs, "weight") = 0 THEN {1}
    ELSE { Max(1, Min(5, n)) :
             n \in RoundQuotient(SumOf(srs, "weighted_score"), SumOf(srs, "weight")) }

\* credentialing_service.py:721-733
_determine_compliance_status_vacuous(hrs) ==
    IF \A i \in 1..Len(hrs) : hrs[i].passed THEN "COMPLIANT" ELSE "NON_COMPLIANT"
_determine_compliance_status(hrs) ==
    IF hrs = <<>> THEN "FAILED"
    ELSE IF \A i \in 1..Len(hrs) : hrs[i].passed THEN "COMPLIANT"
    ELSE "NON_COMPLIANT"

\* {result.regulation_id: result.<field> for result in results}: a later
\* result for the same id replaces an earlier one.
DictOf(rs, field) ==
    [ id \in { rs[i].regulation_id : i \in 1..Len(rs) } |->
        LET last == CHOOSE i \in 1..Len(rs) :
                        /\ rs[i].regulation_id = id
                        /\ \A j \in 1..Len(rs) : rs[j].regulation_id = id => j <= i
        IN  rs[last][field] ]

NoUsage == [total_requests |-> 0, total_tokens |-> 0, total_cost |-> 0]

\* credentialing_service.py:214-232
CredentialingResult(pid, score, status, hrs, srs, mapped, vdetails) ==
    [provider_id |-> pid, score |-> score, compliance_status |-> status,
     hard_regulations |-> DictOf(hrs, "passed"),
     soft_regulations |-> DictOf(srs, "score"),
     mapped_data |-> mapped, verification_details |-> vdetails,
     hard_regulation_results |-> hrs, soft_regulation_results |-> srs,
     llm_usage |-> NoUsage, errors |-> <<>>]

\* credentialing_service.py:314-327
ErrorResultSilent(pid, e) ==
    [provider_id |-> pid, score |-> 1, compliance_status |-> "FAILED",
     hard_regulations |-> EmptyDict, soft_regulations |-> EmptyDict,
     mapped_data |-> EmptyDict, verification_details |-> EmptyDict,
     hard_regulation_results |-> <<>>, soft_regulation_results |-> <<>>,
     llm_usage |-> NoUsage, errors |-> <<>>]
ErrorResultPending(pid, e) ==
    [provider_id |-> pid, score |-> 1, compliance_status |-> "PENDING",
     hard_regulations |-> EmptyDict, soft_regulations |-> EmptyDict,
     mapped_data |-> EmptyDict, verification_details |-> EmptyDict,
     hard_regulation_results |-> <<>>, soft_regulation_results |-> <<>>,
     llm_usage |-> NoUsage, errors |-> <<e>>]
ErrorResult(pid, e) ==
    [provider_id |-> pid, score |-> 1, compliance_status |-> "FAILED",
     hard_regulations |-> EmptyDict, soft_regulations |-> EmptyDict,
     mapped_data |-> EmptyDict, verification_details |-> EmptyDict,
     hard_regulation_results |-> <<>>, soft_regulation_results |-> <<>>,
     llm_usage |-> NoUsage, errors |-> <<e>>]

\* models/credentialing_result.py:56-58: all(self.hard_regulations.values())
is_compliant(result) ==
    \A id \in DOMAIN result.hard_regulations : result.hard_regulations[id]

\* models/credentialing_result.py:73-89, without timestamp, processing_time,
\* overall_score and warnings.
to_dict(result) ==
    [provider_id |-> result.provider_id,
     score |-> result.score,
     compliance_status |-> result.compliance_status,
     hard_regulations |-> result.hard_regulations,
     soft_regulations |-> result.soft_regulations,
     mapped_data |-> result.mapped_data,
     verification_details |-> result.verification_details,
     is_compliant |-> is_compliant(result),
     errors |-> result.errors]

\* credentialing_service.py:238: self.credentialing_results[provider_id] = result
StoreResultKeepFirst(store, pid, result) ==
    [ p \in (DOMAIN store) \cup {pid} |-> IF p \in DOMAIN store THEN store[p] ELSE result ]
StoreResult(store, pid, result) ==
    [ p \in (DOMAIN store) \cup {pid} |-> IF p = pid THEN result ELSE store[p] ]

\* credentialing_service.py:776-780: self.credentialing_results.get(provider_id)
get_credentialing_result(store, pid) ==
    IF pid \in DOMAIN store THEN store[pid] ELSE NoResult

\* credentialing_service.py:963-977
_fallback_mapping(regs) ==
    [ id \in { regs[i].id : i \in 1..Len(regs) } |->
        [data_fields |-> (CHOOSE i \in 1..Len(regs) : regs[i].id = id),
         reasoning |-> "Fallback mapping based on regulation data_fields"] ]

\* A JSON object the LLM answered with, one entry per regulation.
LlmMapping(regs) ==
    [ id \in { regs[i].id : i \in 1..Len(regs) } |->
        [data_fields |-> (CHOOSE i \in 1..Len(regs) : regs[i].id = id),
         reasoning |-> "llm"] ]

\* credentialing_service.py:902-916 and 949-961. The outcome of the one LLM
\* call: a parsable JSON object, text without one, or an exception.
MappingOutcomes == {"json", "no_json", "raises"}
_map_data_to_regulations(regs, outcome) ==
    CASE outcome = "json" -> LlmMapping(regs)
      [] outcome = "no_json" -> EmptyDict
      [] outcome = "raises" -> _fallback_mapping(regs)

\* credentialing_service.py:332-359 and 1038-1071
_verify_with_credentialing_api(parsed) ==
    [api_response |-> "Verified",
     processed_response |-> IF parsed THEN "llm" ELSE "processed"]

\* The envelopes n answered LLM calls of a run leave behind: the service's
\* provider is LLMProvider() (credentialing_service.py:26), whose model is
\* "gpt-4.1" (unified_llm.py:22-23), and every call uses CallTokens tokens each way.
ServiceModel == <<"g", "p", "t", "-", "4", ".", "1">>
CallTokens == 1000
Envelopes(n) ==
    [ k \in 1..n |->
        LLMResponseEnvelope("text", CallTokens, CallTokens, 2 * CallTokens, ServiceModel) ]

RunInit ==
    /\ rpc = "RETRIEVE_PROVIDER"
    /\ provider_id \in ProviderIds
    /\ provider_data = None
    /\ \E nh \in 0..MaxHard : hard_regulations = SubSeq(HardCatalogue, 1, Min(nh, Len(HardCatalogue)))
    /\ \E ns \in 0..MaxSoft : soft_regulations = SubSeq(SoftCatalogue, 1, Min(ns, Len(SoftCatalogue)))
    /\ mapped_data = None /\ verification_details = None /\ llm_responses = None
    /\ hard_regulation_results = <<>> /\ soft_regulation_results = <<>>
    /\ run_result = NoResult /\ exception = None /\ returned = NoResult
    /\ credentialing_results = <<>>
    /\ audit_events = {"credentialing_started"}
    /\ mapping_outcome = None /\ llm_envelopes = <<>> /\ report_outcome = None
    /\ BatchIdle /\ ParseIdle /\ LlmIdle /\ ServeIdle /\ AdapterIdle /\ EndpointIdle

\* credentialing_service.py:61-65
RetrieveProvider ==
    /\ rpc = "RETRIEVE_PROVIDER"
    /\ IF ~ProviderFound(provider_id)
       THEN /\ exception' = "Provider not found"
            /\ rpc' = "EXCEPT"
            /\ UNCHANGED provider_data
       ELSE /\ provider_data' = get_provider(provider_id)
            /\ rpc' = "MAP_DATA"
            /\ UNCHANGED exception
    /\ UNCHANGED <<report_outcome, mapping_outcome, llm_envelopes, provider_id, hard_regulations, soft_regulations, mapped_data,
                   verification_details, llm_responses, hard_regulation_results,
                   soft_regulation_results, run_result, returned,
                   credentialing_results, audit_events>>

\* credentialing_service.py:90-106: the mapping, then mapping_quality divides
\* by the number of configured regulations.
MapData ==
    /\ rpc = "MAP_DATA"
    /\ \E outcome \in MappingOutcomes :
        /\ mapped_data' = _map_data_to_regulations(hard_regulations \o soft_regulations, outcome)
        /\ mapping_outcome' = outcome
        /\ llm_envelopes' = llm_envelopes \o Envelopes(IF outcome = "raises" THEN 0 ELSE 1)
    /\ IF Len(hard_regulations) + Len(soft_regulations) = 0
       THEN exception' = "division by zero" /\ rpc' = "EXCEPT"
       ELSE UNCHANGED exception /\ rpc' = "VERIFY_EXTERNAL"
    /\ UNCHANGED <<report_outcome, provider_id, provider_data, hard_regulations, soft_regulations,
                   verification_details, llm_responses, hard_regulation_results,
                   soft_regulation_results, run_result, returned,
                   credentialing_results, audit_events>>

\* credentialing_service.py:115
VerifyExternal ==
    /\ rpc = "VERIFY_EXTERNAL"
    /\ \E parsed \in BOOLEAN :
        /\ verification_details' = _verify_with_credentialing_api(parsed)
        /\ \E answered \in {TRUE, parsed} :
              llm_envelopes' = llm_envelopes \o Envelopes(IF answered THEN 1 ELSE 0)
    /\ rpc' = "CHECK_HARD_REGULATIONS"
    /\ UNCHANGED <<report_outcome, mapping_outcome, provider_id, provider_data, hard_regulations, soft_regulations,
                   mapped_data, llm_responses, hard_regulation_results,
                   soft_regulation_results, run_result, exception, returned,
                   credentialing_results, audit_events>>

\* credentialing_service.py:368-396: prompts built, the batch call awaited.
CheckHardAwait ==
    /\ rpc = "CHECK_HARD_REGULATIONS"
    /\ llm_responses' \in BatchOutcomes(Len(hard_regulations), HardReplies)
    /\ llm_envelopes' = llm_envelopes \o Envelopes(Len(llm_responses'.responses))
    /\ rpc' = "HARD_RESPONSES"
    /\ UNCHANGED <<report_outcome, mapping_outcome, provider_id, provider_data, hard_regulations, soft_regulations,
                   mapped_data, verification_details, hard_regulation_results,
                   soft_regulation_results, run_result, exception, returned,
                   credentialing_results, audit_events>>

\* credentialing_service.py:398-474
CheckHardProcess ==
    /\ rpc = "HARD_RESPONSES"
    /\ hard_regulation_results' =
         _check_hard_regulations(hard_regulations, provider_data,
                                 verification_details, llm_responses)
    /\ \E reasoning_answered \in BOOLEAN :
          llm_envelopes' = llm_envelopes \o
              Envelopes(IF reasoning_answered THEN Len(hard_regulation_results') ELSE 0)
    /\ rpc' = "SCORE_SOFT_REGULATIONS"
    /\ UNCHANGED <<report_outcome, mapping_outcome, provider_id, provider_data, hard_regulations, soft_regulations,
                   mapped_data, verification_details, llm_responses,
                   soft_regulation_results, run_result, exception, returned,
                   credentialing_results, audit_events>>

\* credentialing_service.py:480-508
ScoreSoftAwait ==
    /\ rpc = "SCORE_SOFT_REGULATIONS"
    /\ llm_responses' \in BatchOutcomes(Len(soft_regulations), SoftReplies)
    /\ llm_envelopes' = llm_envelopes \o Envelopes(Len(llm_responses'.responses))
    /\ rpc' = "SOFT_RESPONSES"
    /\ UNCHANGED <<report_outcome, mapping_outcome, provider_id, provider_data, hard_regulations, soft_regulations,
                   mapped_data, verification_details, hard_regulation_results,
                   soft_regulation_results, run_result, exception, returned,
                   credentialing_results, audit_events>>

\* credentialing_service.py:510-582
ScoreSoftProcess ==
    /\ rpc = "SOFT_RESPONSES"
    /\ soft_regulation_results' =
         _score_soft_regulations(soft_regulations, provider_data, llm_responses)
    /\ \E reasoning_answered \in BOOLEAN :
          llm_envelopes' = llm_envelopes \o
              Envelopes(IF reasoning_answered THEN Len(soft_regulation_results') ELSE 0)
    /\ rpc' = "AGGREGATE"
    /\ UNCHANGED <<report_outcome, mapping_outcome, provider_id, provider_data, hard_regulations, soft_regulations,
                   mapped_data, verification_details, llm_responses,
                   hard_regulation_results, run_result, exception, returned,
                   credentialing_results, audit_events>>

\* credentialing_service.py:193-256: score, status, the result, the store,
\* the credentialing_completed audit event.
Aggregate ==
    /\ rpc = "AGGREGATE"
    /\ \E overall_score \in _calculate_overall_score(soft_regulation_results) :
        run_result' = CredentialingResult(provider_id, overall_score,
                          _determine_compliance_status(hard_regulation_results),
                          hard_regulation_results, soft_regulation_results,
                          mapped_data, verification_details)
    /\ credentialing_results' = StoreResult(credentialing_results, provider_id, run_result')
    /\ audit_events' = audit_events \cup {"credentialing_completed"}
    /\ llm_responses' = None
    /\ rpc' = "REPORT"
    /\ UNCHANGED <<report_outcome, mapping_outcome, llm_envelopes, provider_id, provider_data, hard_regulations, soft_regulations,
                   mapped_data, verification_details, hard_regulation_results,
                   soft_regulation_results, exception, returned>>

\* A run whose report phase has no handler of its own: a failing report reaches
\* the top-level handler.
ReportUnguarded ==
    /\ rpc = "REPORT"
    /\ \E report_raises \in BOOLEAN :
        /\ report_outcome' = IF report_raises THEN "raised" ELSE "generated"
        /\ audit_events' = audit_events \cup
              (IF report_raises THEN {} ELSE {"comprehensive_report_generated"})
        /\ IF report_raises
           THEN exception' = "report failed" /\ rpc' = "EXCEPT" /\ UNCHANGED returned
           ELSE UNCHANGED exception /\ rpc' = "DONE" /\ returned' = run_result
    /\ UNCHANGED <<mapping_outcome, llm_envelopes, provider_id, provider_data, hard_regulations, soft_regulations,
                   mapped_data, verification_details, llm_responses,
                   hard_regulation_results, soft_regulation_results, run_result,
                   credentialing_results>>

\* credentialing_service.py:258-290: the report is generated or raises; the
\* result is returned either way.
Report ==
    /\ rpc = "REPORT"
    /\ \E report_raises \in BOOLEAN :
        /\ report_outcome' = IF report_raises THEN "raised" ELSE "generated"
        /\ audit_events' = audit_events \cup
              { IF report_raises THEN "comprehensive_report_generation_failed"
                ELSE "comprehensive_report_generated" }
    /\ returned' = run_result
    /\ rpc' = "DONE"
    /\ UNCHANGED <<mapping_outcome, llm_envelopes, provider_id, provider_data, hard_regulations, soft_regulations,
                   mapped_data, verification_details, llm_responses,
                   hard_regulation_results, soft_regulation_results, run_result,
                   exception, credentialing_results>>

\* A handler that also files the error result in the store.
HandleExceptionStoring ==
    /\ rpc = "EXCEPT"
    /\ audit_events' = audit_events \cup {"credentialing_failed"}
    /\ returned' = ErrorResult(provider_id, exception)
    /\ credentialing_results' = StoreResult(credentialing_results, provider_id, returned')
    /\ rpc' = "ERROR"
    /\ UNCHANGED <<report_outcome, mapping_outcome, llm_envelopes, provider_id, provider_data, hard_regulations, soft_regulations,
                   mapped_data, verification_details, llm_responses,
                   hard_regulation_results, soft_regulation_results, run_result,
                   exception>>

\* credentialing_service.py:292-330
HandleException ==
    /\ rpc = "EXCEPT"
    /\ audit_events' = audit_events \cup {"credentialing_failed"}
    /\ returned' = ErrorResult(provider_id, exception)
    /\ rpc' = "ERROR"
    /\ UNCHANGED <<report_outcome, mapping_outcome, llm_envelopes, provider_id, provider_data, hard_regulations, soft_regulations,
                   mapped_data, verification_details, llm_responses,
                   hard_regulation_results, soft_regulation_results, run_result,
                   exception, credentialing_results>>

RunStep ==
    \/ RetrieveProvider
    \/ MapData
    \/ VerifyExternal
    \/ CheckHardAwait
    \/ CheckHardProcess
    \/ ScoreSoftAwait
    \/ ScoreSoftProcess
    \/ Aggregate
    \/ Report
    \/ HandleException

RunNext == RunStep /\ UNCHANGED <<batchVars, parseVars, llmVars, serveVars, adapterVars, endpointVars>>

SpecRun == RunInit /\ [][RunNext]_vars

\* A run on a service that has credentialed P1 and P2 before: the store holds
\* a result of an earlier run for each (all hard regulations passed, every
\* soft regulation scored 3). With no regulation configured every run fails,
\* and the store of such a service is empty.
EarlierResult(pid, hard, soft) ==
    LET hrs == [i \in 1..Len(hard) |-> HardRegulationResult(hard[i], TRUE)]
        srs == [i \in 1..Len(soft) |-> SoftRegulationResult(soft[i], 3)]
    IN  CredentialingResult(pid,
                            CHOOSE sc \in _calculate_overall_score(srs) : TRUE,
                            _determine_compliance_status(hrs), hrs, srs,
                            _fallback_mapping(hard \o soft),
                            _verify_with_credentialing_api(FALSE))

EarlierStore(hard, soft) ==
    IF Len(hard) + Len(soft) = 0 THEN <<>>
    ELSE [ pid \in {"P1", "P2"} |-> EarlierResult(pid, hard, soft) ]

RerunInit ==
    /\ rpc = "RETRIEVE_PROVIDER"
    /\ provider_id \in ProviderIds
    /\ provider_data = None
    /\ \E nh \in 0..MaxHard : hard_regulations = SubSeq(HardCatalogue, 1, Min(nh, Len(HardCatalogue)))
    /\ \E ns \in 0..MaxSoft : soft_regulations = SubSeq(SoftCatalogue, 1, Min(ns, Len(SoftCatalogue)))
    /\ mapped_data = None /\ verification_details = None /\ llm_responses = None
    /\ hard_regulation_results = <<>> /\ soft_regulation_results = <<>>
    /\ run_result = NoResult /\ exception = None /\ returned = NoResult
    /\ credentialing_results = EarlierStore(hard_regulations, soft_regulations)
    /\ audit_events = {"credentialing_started"}
    /\ mapping_outcome = None /\ llm_envelopes = <<>> /\ report_outcome = None
    /\ BatchIdle /\ ParseIdle /\ LlmIdle /\ ServeIdle /\ AdapterIdle /\ EndpointIdle

SpecRerun == RerunInit /\ [][RunNext]_vars

\* C3: when generate_batch_async raises in a regulation-evaluation phase, the
\* phase completes without an exception and yields exactly one result per
\* configured regulation of that kind, in configuration order, each holding
\* the deterministic rule's outcome on that regulation's relevant data
\* (hard: checked when the hard phase has returned; soft likewise).
C3_BatchFallback ==
    /\ (rpc = "SCORE_SOFT_REGULATIONS" /\ llm_responses.raised) =>
         /\ exception = None
         /\ Len(hard_regulation_results) = Len(hard_regulations)
         /\ \A i \in 1..Len(hard_regulations) :
              /\ hard_regulation_results[i].regulation_id = hard_regulations[i].id
              /\ hard_regulation_results[i].passed =
                   _validate_hard_regulation(hard_regulations[i],
                       _extract_regulation_data(hard_regulations[i], provider_data,
                                                verification_details))
    /\ (rpc = "AGGREGATE" /\ llm_responses.raised) =>
         /\ exception = None
         /\ Len(soft_regulation_results) = Len(soft_regulations)
         /\ \A i \in 1..Len(soft_regulations) :
              /\ soft_regulation_results[i].regulation_id = soft_regulations[i].id
              /\ soft_regulation_results[i].score =
                   _score_soft_regulation(soft_regulations[i],
                       _extract_regulation_data(soft_regulations[i], provider_data, EmptyDict))

\* The hard batch raised for a provider with a disciplinary action and the
\* rule failed the second regulation.
C3_Witness ==
    /\ rpc = "SCORE_SOFT_REGULATIONS" /\ llm_responses.raised
    /\ Len(hard_regulation_results) = 2
    /\ hard_regulation_results[1].passed /\ ~hard_regulation_results[2].passed

C5_ComplianceStatus ==
    rpc \in {"REPORT", "DONE"} =>
        LET hrs == hard_regulation_results
            some == hrs # <<>>
            allp == \A i \in 1..Len(hrs) : hrs[i].passed
            st == IF rpc = "DONE" THEN returned.compliance_status
                  ELSE run_result.compliance_status
        IN  /\ (st = "COMPLIANT") <=> (some /\ allp)
            /\ (st = "NON_COMPLIANT") <=> (some /\ ~allp)
            /\ ~some => st = "FAILED"

\* A run with no hard regulation configured returned FAILED.
C5_Witness ==
    /\ rpc = "DONE" /\ hard_regulation_results = <<>>
    /\ returned.compliance_status = "FAILED"

\* C8: when the batch returned normally, every regulation has exactly one
\* result, in order; a regulation whose response holds a verdict keeps it, and
\* one whose response the parser raises on gets the deterministic rule's
\* outcome, the others being untouched.
HasHardSignal(content) ==
    /\ content.is_str
    /\ \/ Contains(Lower(content.text), PassWord)
       \/ Contains(Lower(content.text), FailWord)

C8_PerItemFallback ==
    (rpc = "SCORE_SOFT_REGULATIONS" /\ ~llm_responses.raised) =>
        /\ Len(hard_regulation_results) = Len(hard_regulations)
        /\ \A i \in 1..Len(hard_regulations) :
             /\ hard_regulation_results[i].regulation_id = hard_regulations[i].id
             /\ HasHardSignal(llm_responses.responses[i]) =>
                  hard_regulation_results[i].passed =
                      ~Contains(Lower(llm_responses.responses[i].text), FailWord)
             /\ ~llm_responses.responses[i].is_str =>
                  hard_regulation_results[i].passed =
                      _validate_hard_regulation(hard_regulations[i],
                          _extract_regulation_data(hard_regulations[i], provider_data,
                                                   verification_details))

\* C9: a response without a signal gets the verdict of the deterministic rule
\* on the provider's relevant data, the verdict the batch-failure fallback
\* gives that regulation.
NoSoftSignal(content) == content.is_str /\ ReSearchScoreFrom(content.text, 1) = 0

C9_NoSignalUsesRule ==
    /\ (rpc = "SCORE_SOFT_REGULATIONS" /\ ~llm_responses.raised
            /\ FirstUnparsable(llm_responses.responses) = 0) =>
         \A i \in 1..Len(hard_regulations) :
            (llm_responses.responses[i].is_str /\ ~HasHardSignal(llm_responses.responses[i])) =>
                hard_regulation_results[i].passed =
                    HardFallback(hard_regulations, provider_data, verification_details)[i].passed
    /\ (rpc = "AGGREGATE" /\ ~llm_responses.raised
            /\ FirstUnparsable(llm_responses.responses) = 0) =>
         \A i \in 1..Len(soft_regulations) :
            NoSoftSignal(llm_responses.responses[i]) =>
                soft_regulation_results[i].score =
                    SoftFallback(soft_regulations, provider_data)[i].score

(***************************************************************************)
(* Aggregation over arbitrary soft results                                 *)
(***************************************************************************)

\* Lists of at most MaxResults soft results, scores 1..5, weights in tenths.
MaxResults == 3
ScoreWeights == {0, 3, 4}

ScoreInit ==
    /\ rpc = "AGGREGATE"
    /\ provider_id = "P1"
    /\ provider_data = ProviderStore["P1"]
    /\ hard_regulations = SubSeq(HardCatalogue, 1, 1)
    /\ \E n \in 0..Min(MaxResults, Len(SoftCatalogue)) :
        \E w \in [1..n -> ScoreWeights], sc \in [1..n -> 1..5] :
            /\ soft_regulations = [k \in 1..n |-> [SoftCatalogue[k] EXCEPT !.weight = w[k]]]
            /\ soft_regulation_results =
                 [k \in 1..n |->
                    SoftRegulationResult([SoftCatalogue[k] EXCEPT !.weight = w[k]], sc[k])]
    /\ mapped_data = EmptyDict
    /\ verification_details = _verify_with_credentialing_api(FALSE)
    /\ llm_responses = None
    /\ hard_regulation_results = <<HardRegulationResult(HardCatalogue[1], TRUE)>>
    /\ run_result = NoResult /\ exception = None /\ returned = NoResult
    /\ credentialing_results = <<>>
    /\ audit_events = {"credentialing_started"}
    /\ mapping_outcome = None /\ llm_envelopes = <<>> /\ report_outcome = None
    /\ BatchIdle /\ ParseIdle /\ LlmIdle /\ ServeIdle /\ AdapterIdle /\ EndpointIdle

ScoreStep == Aggregate \/ Report

ScoreNext == ScoreStep /\ UNCHANGED <<batchVars, parseVars, llmVars, serveVars, adapterVars, endpointVars>>

SpecScore == ScoreInit /\ [][ScoreNext]_vars

C13_ScoresInRange ==
    returned # NoResult =>
        /\ returned.score \in 1..5
        /\ \A i \in 1..Len(returned.soft_regulation_results) :
              returned.soft_regulation_results[i].score \in 1..5
        /\ \A id \in DOMAIN returned.soft_regulations :
              returned.soft_regulations[id] \in 1..5

\* A returned result whose first soft score was parsed from the response and
\* whose second is the default of a response without a usable digit.
C13_Witness ==
    /\ rpc = "DONE" /\ returned # NoResult
    /\ Len(returned.soft_regulation_results) = 2
    /\ returned.soft_regulation_results[1].score = 5
    /\ returned.soft_regulation_results[2].score = 3
    /\ provider_id = "P2"

\* C16: a run for a provider id the store does not know leaves
\* RETRIEVE_PROVIDER for the exception handler and ends in ERROR with a FAILED
\* result holding the not-found message; no later phase ran (nothing mapped,
\* verified or evaluated, no LLM call made), and no step enters
\* RETRIEVE_PROVIDER again.
UnknownProviderState ==
    (~ProviderFound(provider_id) /\ rpc # "RETRIEVE_PROVIDER") =>
        /\ rpc \in {"EXCEPT", "ERROR"}
        /\ exception = "Provider not found"
        /\ provider_data = None /\ mapped_data = None /\ verification_details = None
        /\ mapping_outcome = None /\ llm_responses = None /\ llm_envelopes = <<>>
        /\ hard_regulation_results = <<>> /\ soft_regulation_results = <<>>
        /\ run_result = NoResult /\ credentialing_results = <<>>
        /\ rpc = "ERROR" =>
             /\ returned.compliance_status = "FAILED"
             /\ returned.errors = <<"Provider not found">>

UnknownProviderStep ==
    ~ProviderFound(provider_id) =>
        /\ rpc' # "RETRIEVE_PROVIDER"
        /\ rpc = "RETRIEVE_PROVIDER" => rpc' = "EXCEPT"
        /\ rpc = "EXCEPT" => rpc' = "ERROR"

C16_UnknownProviderFails == []UnknownProviderState /\ [][UnknownProviderStep]_vars

\* The run for the unknown id P9 returned its FAILED result.
C16_Witness ==
    /\ rpc = "ERROR" /\ provider_id = "P9"
    /\ returned.compliance_status = "FAILED"
    /\ returned.errors = <<"Provider not found">>

\* C17: when the mapping call answered with text that holds no parsable JSON
\* object and the run went on to VERIFY_EXTERNAL, the mapping of the run is the
\* field-copy mapping: one entry per regulation with its declared data_fields.
C17_ParseFailureFieldCopy ==
    (rpc = "VERIFY_EXTERNAL" /\ mapping_outcome = "no_json") =>
        mapped_data = _fallback_mapping(hard_regulations \o soft_regulations)

\* C19: the llm_usage of a returned result counts the LLM calls of the run and
\* sums the total_tokens and total_cost of their envelopes.
C19_UsageIsCumulative ==
    returned # NoResult =>
        /\ returned.llm_usage.total_requests = Len(llm_envelopes)
        /\ returned.llm_usage.total_tokens = SumOf(llm_envelopes, "total_tokens")
        /\ returned.llm_usage.total_cost = SumOf(llm_envelopes, "total_cost")

\* C20: every returned result whose status is FAILED has a non-empty errors
\* list.
C20_FailedHasError ==
    (returned # NoResult /\ returned.compliance_status = "FAILED") =>
        Len(returned.errors) > 0

\* C22: when report generation raised after AGGREGATE, the run has returned the
\* result it computed (the status and score of the aggregation), without
\* reaching the top-level handler; that result is the store's entry for the
\* provider, and was so before the report began; and the audit trail holds
\* the comprehensive_report_generation_failed event.
C22_ReportFailureKeepsResult ==
    /\ rpc = "REPORT" =>
         get_credentialing_result(credentialing_results, provider_id) = run_result
    /\ report_outcome = "raised" =>
         /\ rpc = "DONE" /\ exception = None
         /\ run_result # NoResult /\ returned = run_result
         /\ returned.compliance_status = _determine_compliance_status(hard_regulation_results)
         /\ returned.score \in _calculate_overall_score(soft_regulation_results)
         /\ get_credentialing_result(credentialing_results, provider_id) = returned
         /\ "comprehensive_report_generation_failed" \in audit_events
         /\ "credentialing_failed" \notin audit_events

\* A run of P1 found NON_COMPLIANT whose report generation raised.
C22_Witness ==
    /\ report_outcome = "raised" /\ rpc = "DONE"
    /\ provider_id = "P1"
    /\ returned.compliance_status = "NON_COMPLIANT"


\* C26: a run that reaches AGGREGATE holds one hard result per configured hard
\* regulation and one soft result per configured soft regulation, each list
\* carrying the regulations' ids in configuration order (so none twice),
\* whatever the batches answered.
IdsOf(rs) == [i \in 1..Len(rs) |-> rs[i].regulation_id]
ConfiguredIds(regs) == [i \in 1..Len(regs) |-> regs[i].id]

C26_OneResultPerRegulation ==
    rpc = "AGGREGATE" =>
        /\ IdsOf(hard_regulation_results) = ConfiguredIds(hard_regulations)
        /\ IdsOf(soft_regulation_results) = ConfiguredIds(soft_regulations)

\* C27: the serialized form of every result credential_provider returned has
\* is_compliant true exactly when its compliance_status is COMPLIANT.
C27_IsCompliantMatchesStatus ==
    returned # NoResult =>
        (to_dict(returned).is_compliant <=> to_dict(returned).compliance_status = "COMPLIANT")

\* C28: a run that ends through the top-level exception handler leaves the
\* result store as it was before the run, for the run's provider and for every
\* other one; the FAILED result it returns is not the store's entry.
C28_ErrorPathKeepsStore ==
    rpc \in {"EXCEPT", "ERROR"} =>
        /\ credentialing_results = EarlierStore(hard_regulations, soft_regulations)
        /\ rpc = "ERROR" =>
             /\ returned.compliance_status = "FAILED"
             /\ get_credentialing_result(credentialing_results, provider_id) # returned

\* The run for the unknown P9 has failed on a service whose store holds the
\* earlier results of P1 and P2.
C28_Witness ==
    /\ rpc = "ERROR" /\ provider_id = "P9"
    /\ DOMAIN credentialing_results = {"P1", "P2"}
    /\ get_credentialing_result(credentialing_results, "P9") = NoResult

(***************************************************************************)
(* Concurrent credentialing runs of one /batch-credential request          *)
(***************************************************************************)

\* config/concurrency.py:27,30: the defaults of the two environment settings.
MAX_CONCURRENT_BATCH_REQUESTS == 10
MAX_CONCURRENT_LLM_REQUESTS == 5

\* Requests explored: the first 1..MaxProviders ids of ServeRequest, under the
\* default batch limit and under a limit of SmallBatchLimit.
MaxProviders == 4
SmallBatchLimit == 2
ServeRequest == <<"P1", "P2", "P1", "P9", "P2", "P1">>
BatchLimits == {SmallBatchLimit, MAX_CONCURRENT_BATCH_REQUESTS}

\* The regulations the service was configured with.
ServiceHard == SubSeq(HardCatalogue, 1, Min(MaxHard, Len(HardCatalogue)))
ServiceSoft == SubSeq(SoftCatalogue, 1, Min(MaxSoft, Len(SoftCatalogue)))

\* main.py:452
max_concurrent == Min(batch_limit, Len(provider_ids))

\* credentialing_service.py:214-238: the result object of run k, constructed
\* (timestamp = datetime.now()) and stored without an await in between.
ServedResult(pid, k, ts) ==
    [provider_id |-> pid, run |-> k, timestamp |-> ts,
     compliance_status |-> _determine_compliance_status(
         [ i \in 1..Len(ServiceHard) |-> HardRegulationResult(ServiceHard[i], TRUE) ])]

\* credentialing_service.py:314-327: the error result of run k.
ServedError(pid, k) ==
    [provider_id |-> pid, run |-> k, compliance_status |-> "FAILED"]

\* generate_async calls started and not yet finished, over all runs: those of
\* the batch a run awaits and those a failed hard batch left behind.
RECURSIVE SumInFlight(_)
SumInFlight(rs) ==
    IF rs = <<>> THEN 0
    ELSE rs[1].in_flight + rs[1].abandoned + SumInFlight(Tail(rs))
LlmInFlight == SumInFlight(runs)

\* main.py:455-457: what process_provider returns for a run that returned.
ProcessProviderEntry(result) == [success |-> TRUE, result |-> result]

\* main.py:470-474: results[provider_id] = result, for the chunk in order.
RECURSIVE AddChunkResults(_, _)
AddChunkResults(d, rs) ==
    IF rs = <<>> THEN d
    ELSE AddChunkResults(
             [ p \in (DOMAIN d) \cup {rs[1].provider_id} |->
                 IF p = rs[1].provider_id THEN ProcessProviderEntry(rs[1].result)
                 ELSE d[p] ],
             Tail(rs))

ServeInit ==
    /\ \E n \in 0..Min(MaxProviders, Len(ServeRequest)) : provider_ids = SubSeq(ServeRequest, 1, n)
    /\ batch_limit \in BatchLimits
    /\ chunk_start = 0 /\ spc = "chunk" /\ runs = <<>>
    /\ clock = 0 /\ created = {}
    /\ llm_semaphore = MAX_CONCURRENT_LLM_REQUESTS
    /\ batch_results = <<>> /\ http_response = NoResponse
    /\ BatchIdle /\ ParseIdle /\ RunIdle /\ LlmIdle /\ AdapterIdle /\ EndpointIdle

\* main.py:461,483-485: range(0, len(provider_ids), max_concurrent) raises
\* ValueError when max_concurrent is 0; the endpoint's handler turns it into
\* an HTTP 500.
RangeRaises ==
    /\ spc = "chunk" /\ chunk_start = 0
    /\ max_concurrent = 0
    /\ http_response' = [status |-> 500, detail |-> "range() arg 3 must not be zero"]
    /\ spc' = "done"
    /\ UNCHANGED <<provider_ids, batch_limit, chunk_start, runs, clock, created,
                   llm_semaphore, batch_results, credentialing_results>>

\* main.py:462-467: the coroutines of the next chunk are created and gathered.
StartChunk ==
    /\ spc = "chunk"
    /\ max_concurrent > 0
    /\ LET chunk == SubSeq(provider_ids, chunk_start + 1,
                           Min(chunk_start + max_concurrent, Len(provider_ids)))
       IN  runs' = [ j \in 1..Len(chunk) |->
                       [provider_id |-> chunk[j], run |-> chunk_start + j,
                        pc |-> "pending", in_flight |-> 0, abandoned |-> 0,
                        result |-> NoResult] ]
    /\ spc' = "gather"
    /\ UNCHANGED <<provider_ids, batch_limit, chunk_start, clock, created,
                   llm_semaphore, batch_results, http_response, credentialing_results>>

\* credentialing_service.py:45-140, 361-396: a run starts; up to its first
\* await it retrieves, maps, verifies and hands the hard prompts to
\* generate_batch_async, which starts one generate_async call per prompt.
\* An unknown provider returns the error result, which is not stored.
RunBegin(j) ==
    /\ spc = "gather" /\ runs[j].pc = "pending"
    /\ runs' = [runs EXCEPT ![j] =
                  IF ProviderFound(runs[j].provider_id)
                  THEN [@ EXCEPT !.pc = "hard", !.in_flight = Len(ServiceHard)]
                  ELSE [@ EXCEPT !.pc = "returned",
                                 !.result = ServedError(runs[j].provider_id, runs[j].run)]]
    /\ UNCHANGED <<provider_ids, batch_limit, chunk_start, spc, clock, created,
                   llm_semaphore, batch_results, http_response, credentialing_results>>

\* gpt_llm.py:24-30: one generate_async call of the batch run j awaits finishes.
CallReturns(j) ==
    /\ spc = "gather" /\ runs[j].in_flight > 0
    /\ runs' = [runs EXCEPT ![j].in_flight = @ - 1]
    /\ UNCHANGED <<provider_ids, batch_limit, chunk_start, spc, clock, created,
                   llm_semaphore, batch_results, http_response, credentialing_results>>

\* credentialing_service.py:396-508: the hard batch is in; results are built
\* and the soft prompts handed to generate_batch_async.
HardCollected(j) ==
    /\ spc = "gather" /\ runs[j].pc = "hard" /\ runs[j].in_flight = 0
    /\ runs' = [runs EXCEPT ![j] = [@ EXCEPT !.pc = "soft", !.in_flight = Len(ServiceSoft)]]
    /\ UNCHANGED <<provider_ids, batch_limit, chunk_start, spc, clock, created,
                   llm_semaphore, batch_results, http_response, credentialing_results>>

\* credentialing_service.py:193-238: the result of run j is constructed,
\* stored under the provider id and returned.
StoreAndReturn(j) ==
    /\ clock' = clock + 1
    /\ LET result == ServedResult(runs[j].provider_id, runs[j].run, clock')
       IN  /\ credentialing_results' =
                StoreResult(credentialing_results, runs[j].provider_id, result)
           /\ created' = created \cup {result}
           /\ runs' = [runs EXCEPT ![j] =
                         [@ EXCEPT !.pc = "returned", !.in_flight = 0,
                                   !.abandoned = 0, !.result = result]]

\* credentialing_service.py:508-290: the soft batch is in; the result is
\* constructed, stored under the provider id and returned.
SoftCollected(j) ==
    /\ spc = "gather" /\ runs[j].pc = "soft" /\ runs[j].in_flight = 0
    /\ StoreAndReturn(j)
    /\ UNCHANGED <<provider_ids, batch_limit, chunk_start, spc, llm_semaphore,
                   batch_results, http_response>>

\* main.py:467-481: gather returns once every coroutine of the chunk has; the
\* chunk's entries go into results; after the last chunk the endpoint answers.
CollectChunk ==
    /\ spc = "gather"
    /\ \A j \in 1..Len(runs) : runs[j].pc = "returned"
    /\ chunk_start' = chunk_start + max_concurrent
    /\ batch_results' = AddChunkResults(batch_results, runs)
    /\ IF chunk_start' >= Len(provider_ids)
       THEN /\ spc' = "done"
            /\ http_response' = [status |-> 200, success |-> TRUE,
                                 batch_results |-> batch_results',
                                 total_processed |-> Len(provider_ids),
                                 concurrent_limit |-> max_concurrent]
       ELSE /\ spc' = "chunk"
            /\ UNCHANGED http_response
    /\ runs' = <<>>
    /\ UNCHANGED <<provider_ids, batch_limit, clock, created, llm_semaphore,
                   credentialing_results>>

ServeStep ==
    \/ RangeRaises
    \/ StartChunk
    \/ \E j \in 1..Len(runs) : RunBegin(j)
    \/ \E j \in 1..Len(runs) : CallReturns(j)
    \/ \E j \in 1..Len(runs) : HardCollected(j)
    \/ \E j \in 1..Len(runs) : SoftCollected(j)
    \/ CollectChunk

ServeNext == ServeStep /\ UNCHANGED <<batchVars, parseVars, llmVars, runLocalVars, adapterVars, endpointVars>>

SpecServe == ServeInit /\ [][ServeNext]_vars

\* Runs whose generate_async calls may raise.
MaxFailingRuns == 2

ServeFailInit ==
    /\ \E n \in 0..Min(MaxFailingRuns, Len(ServeRequest)) : provider_ids = SubSeq(ServeRequest, 1, n)
    /\ batch_limit \in BatchLimits
    /\ chunk_start = 0 /\ spc = "chunk" /\ runs = <<>>
    /\ clock = 0 /\ created = {}
    /\ llm_semaphore = MAX_CONCURRENT_LLM_REQUESTS
    /\ batch_results = <<>> /\ http_response = NoResponse
    /\ BatchIdle /\ ParseIdle /\ RunIdle /\ LlmIdle /\ AdapterIdle /\ EndpointIdle

\* A generate_async call of the batch run j awaits raises: gather raises in
\* generate_batch_async at once, leaving the other calls of the batch running
\* (llm.py:173). In the hard phase the except branch (431-474) evaluates the
\* rules synchronously and _check_hard_regulations returns; the run goes on to
\* hand the soft prompts to generate_batch_async (508). In the soft phase the
\* except branch (542-582) does the same and the run aggregates, stores and
\* returns; the calls a failed soft batch leaves behind are not followed.
CallRaises(j) ==
    /\ spc = "gather" /\ runs[j].in_flight > 0
    /\ IF runs[j].pc = "hard"
       THEN /\ runs' = [runs EXCEPT ![j] =
                          [@ EXCEPT !.pc = "soft",
                                    !.abandoned = runs[j].in_flight - 1,
                                    !.in_flight = Len(ServiceSoft)]]
            /\ UNCHANGED <<clock, created, credentialing_results>>
       ELSE StoreAndReturn(j)
    /\ UNCHANGED <<provider_ids, batch_limit, chunk_start, spc, llm_semaphore,
                   batch_results, http_response>>

\* A call left behind by a failed hard batch finishes (returns or raises):
\* nobody awaits it.
AbandonedCallEnds(j) ==
    /\ spc = "gather" /\ runs[j].abandoned > 0
    /\ runs' = [runs EXCEPT ![j].abandoned = @ - 1]
    /\ UNCHANGED <<provider_ids, batch_limit, chunk_start, spc, clock, created,
                   llm_semaphore, batch_results, http_response, credentialing_results>>

ServeFailStep ==
    \/ ServeStep
    \/ \E j \in 1..Len(runs) : CallRaises(j)
    \/ \E j \in 1..Len(runs) : AbandonedCallEnds(j)

ServeFailNext == ServeFailStep /\ UNCHANGED <<batchVars, parseVars, llmVars, runLocalVars, adapterVars, endpointVars>>

SpecServeFail == ServeFailInit /\ [][ServeFailNext]_vars

\* C15: at every moment the LLM calls in flight over all concurrent runs are
\* at most MAX_CONCURRENT_LLM_REQUESTS, the size of the global semaphore.
C15_GlobalLlmCap == LlmInFlight <= MAX_CONCURRENT_LLM_REQUESTS

\* C18: for every provider id, get_credentialing_result gives exactly the
\* result object stored last for that id (none if no run for it has stored),
\* whatever the interleaving of the runs and whatever was stored for other ids.
ResultsFor(pid) == { r \in created : r.provider_id = pid }
LastStored(pid) ==
    CHOOSE r \in ResultsFor(pid) : \A q \in ResultsFor(pid) : q.timestamp <= r.timestamp

C18_LastWriteWins ==
    \A pid \in ProviderIds :
        get_credentialing_result(credentialing_results, pid) =
            IF ResultsFor(pid) = {} THEN NoResult ELSE LastStored(pid)

\* Two runs for P1 and one for P2 have stored; the store holds the later P1
\* result and the P2 result.
C18_Witness ==
    /\ Cardinality(ResultsFor("P1")) = 2 /\ Cardinality(ResultsFor("P2")) = 1
    /\ get_credentialing_result(credentialing_results, "P1").timestamp >
         get_credentialing_result(credentialing_results, "P2").timestamp
    /\ \E r \in ResultsFor("P1") :
         /\ r # get_credentialing_result(credentialing_results, "P1")
         /\ r.run > get_credentialing_result(credentialing_results, "P1").run

\* C25: in every run, generate_async calls of the hard batch and of the soft
\* batch are never in flight at the same time: while the run awaits its soft
\* batch no call of its hard batch is still running.
HardCallsInFlight(j) ==
    (IF runs[j].pc = "hard" THEN runs[j].in_flight ELSE 0) + runs[j].abandoned
SoftCallsInFlight(j) ==
    IF runs[j].pc = "soft" THEN runs[j].in_flight ELSE 0

C25_PhasesNeverOverlap ==
    \A j \in 1..Len(runs) : ~(HardCallsInFlight(j) > 0 /\ SoftCallsInFlight(j) > 0)

\* C30: when /batch-credential has answered, whatever the length of the list,
\* the answer is a success (status 200, success true) whose batch_results has
\* exactly the distinct submitted ids as keys, each entry holding the result
\* of a run for that id.
C30_BatchAlwaysAnswers ==
    spc = "done" =>
        /\ http_response.status = 200
        /\ http_response.success
        /\ DOMAIN http_response.batch_results = SeqToSet(provider_ids)
        /\ \A p \in DOMAIN http_response.batch_results :
             http_response.batch_results[p].result.provider_id = p

(***************************************************************************)
(* The POST /credential/{provider_id} endpoint                             *)
(***************************************************************************)

\* main.py:228-230: HTTPException(status_code=404, detail=f"Provider {id} not found")
ProviderNotFound(pid) ==
    [status_code |-> 404, detail |-> <<"Provider ", pid, " not found">>]

\* str(e) of an HTTPException: "<status_code>: <detail>" where the installed
\* Starlette defines __str__, the empty string where it does not. The
\* repository pins no version.
StrOfHTTPException(e) == { <<"404: ">> \o e.detail, <<>> }

EndpointInit ==
    /\ epc = "check" /\ path_provider_id \in ProviderIds
    /\ endpoint_response = NoResponse
    /\ rpc = "idle" /\ provider_id = None /\ provider_data = None
    /\ \E nh \in 0..MaxHard : hard_regulations = SubSeq(HardCatalogue, 1, Min(nh, Len(HardCatalogue)))
    /\ \E ns \in 0..MaxSoft : soft_regulations = SubSeq(SoftCatalogue, 1, Min(ns, Len(SoftCatalogue)))
    /\ mapped_data = None /\ verification_details = None /\ llm_responses = None
    /\ hard_regulation_results = <<>> /\ soft_regulation_results = <<>>
    /\ run_result = NoResult /\ exception = None /\ returned = NoResult
    /\ credentialing_results = <<>> /\ audit_events = {}
    /\ mapping_outcome = None /\ llm_envelopes = <<>> /\ report_outcome = None
    /\ BatchIdle /\ ParseIdle /\ LlmIdle /\ ServeIdle /\ AdapterIdle

\* main.py:220-234: the provider is looked up. A missing provider raises the
\* 404 HTTPException inside the try, where except Exception (238-239) catches
\* it and raises HTTPException(status_code=500, detail=str(e)) in its place.
\* A provider that exists starts credential_provider.
EndpointCheck ==
    /\ epc = "check"
    /\ IF ~ProviderFound(path_provider_id)
       THEN /\ \E detail \in StrOfHTTPException(ProviderNotFound(path_provider_id)) :
                 endpoint_response' = [status |-> 500, detail |-> detail]
            /\ epc' = "answered"
            /\ UNCHANGED <<rpc, provider_id, audit_events>>
       ELSE /\ rpc' = "RETRIEVE_PROVIDER"
            /\ provider_id' = path_provider_id
            /\ audit_events' = {"credentialing_started"}
            /\ epc' = "run"
            /\ UNCHANGED endpoint_response
    /\ UNCHANGED <<path_provider_id, provider_data, hard_regulations, soft_regulations,
                   mapped_data, verification_details, llm_responses,
                   hard_regulation_results, soft_regulation_results, run_result,
                   exception, returned, credentialing_results, mapping_outcome,
                   llm_envelopes, report_outcome>>

\* main.py:234: the awaited credential_provider advances.
EndpointRun ==
    /\ epc = "run"
    /\ RunStep
    /\ UNCHANGED endpointVars

\* main.py:236: the run has returned; its result is serialized and answered.
EndpointAnswer ==
    /\ epc = "run" /\ rpc \in {"DONE", "ERROR"}
    /\ endpoint_response' = [status |-> 200, success |-> TRUE,
                             provider_id |-> path_provider_id,
                             result |-> to_dict(returned)]
    /\ epc' = "answered"
    /\ UNCHANGED <<path_provider_id, runVars>>

EndpointStep == EndpointCheck \/ EndpointRun \/ EndpointAnswer

EndpointNext == EndpointStep /\ UNCHANGED <<batchVars, parseVars, llmVars, serveVars, adapterVars>>

SpecEndpoint == EndpointInit /\ [][EndpointNext]_vars

\* C29: when POST /credential/{provider_id} has answered for an id that does
\* not exist, the answer has status 404 and the detail "Provider <id> not
\* found", and no credentialing run was started.
C29_UnknownProviderIs404 ==
    (epc = "answered" /\ ~ProviderFound(path_provider_id)) =>
        /\ endpoint_response.status = 404
        /\ endpoint_response.detail = <<"Provider ", path_provider_id, " not found">>
        /\ rpc = "idle" /\ audit_events = {}

====
